---- MODULE Spec2Model ----
(***************************************************************************)
(* A model of the tmi.js protocol engine: the event bus (EventEmitter),    *)
(* the connection core (ClientBase: connect, the transport callbacks,      *)
(* handleMessage, _sendCommand) and the correlation layer (Client: one     *)
(* method per chat command, join).                                          *)
(*                                                                         *)
(* The variables are the fields of the client object, the listener arrays  *)
(* of its event bus, the promises it has handed out, the pending timers    *)
(* and the WebSocket objects.  A handler is an operator from a state       *)
(* record (one field per variable) to a state record, composed exactly as  *)
(* the calls nest in the source; an action applies one handler.  Time is a *)
(* clock `now` in milliseconds that advances in steps of TickMs; a timer   *)
(* runs once the clock has reached its due time.                           *)
(***************************************************************************)
EXTENDS Integers, Sequences, FiniteSets, TLC

\* ---------------------------------------------------------------- bounds
\* the number of futures (user calls) one behaviour may create
MaxFutures == 3
\* the number of sockets one behaviour may open
MaxSockets == 2
\* the number of clock steps
MaxTicks == 3
\* the length of the channel list handed to join()
MaxJoin == 2
\* the time, in ms, up to which the clock follows the timers: past a ping
\* period, its timeout and a reconnect interval
MaxClock == 71000
\* the same where no ping period is to pass: past a ping's timeout and a
\* reconnect interval
MaxSoon == 12000

\* ------------------------------------------------------- program constants
\* Math.max(600, ...) in _getPromiseDelay
MinPromiseDelay == 600
\* ... currentLatency * 1000 + 100
LatencySlack == 100
\* host() and unhost() pass delay: 2000
HostDelay == 2000
\* opts.options.joinInterval ?? 2000
JoinInterval == 2000
\* if (joinInterval < 300) joinInterval = 300
MinJoinInterval == 300
\* the ping loop's setInterval period
PingInterval == 60000
\* opts.connection.timeout ?? 9999
PingTimeoutMs == 9999
\* opts.connection.reconnectInterval ?? 1000
ReconnectInterval == 1000
\* opts.connection.maxReconnectInterval ?? 30000
MaxReconnectInterval == 30000
\* opts.connection.reconnectDecay ?? 1.5, as DecayNum / DecayDen
DecayNum == 3
DecayDen == 2
\* opts.connection.maxReconnectAttempts of the model's configuration
MaxReconnectAttempts == 2
\* _sendMessage: if (message.length > 500), maxLength = 500
MaxLength == 500
\* ... and the remainder is sent by setTimeout(..., 350)
SplitDelay == 350
\* the granularity of the clock, in ms: one minimal promise delay
TickMs == MinPromiseDelay

Null == "null"
GlobalDefaultChannel == "#tmijs"
Server == "irc-ws.chat.twitch.tv"
Port == 443

\* WebSocket.readyState
CONNECTING == 0
OPEN == 1
CLOSING == 2
CLOSED == 3

VARIABLES
    ws,              \* this.ws: 0 is null, n > 0 the n-th WebSocket opened
    socks,           \* the WebSocket objects: readyState, whether NICK was sent on it,
                     \* and (history) whether a 376 was handled from it
    sent,            \* the frames handed to ws.send, in order: [sock, frame]
    wasCloseCalled,  \* this.wasCloseCalled
    reconnect,       \* this.reconnect
    reconnecting,    \* this.reconnecting
    reconnections,   \* this.reconnections
    reconnectTimer,  \* this.reconnectTimer, in ms
    reason,          \* this.reason
    username,        \* this.username
    optsUsername,    \* this.opts.identity.username (Null: none, an anonymous session)
    channels,        \* this.channels
    optsChannels,    \* this.opts.channels
    options,         \* what the constructor read from opts.connection and
                     \* opts.options: reconnectInterval, maxReconnectInterval,
                     \* reconnectDecay, maxReconnectAttempts, timeout, joinInterval
    userstate,       \* the keys of this.userstate
    moderators,      \* this.moderators: channel -> array of usernames
    lastJoined,      \* this.lastJoined
    currentLatency,  \* this.currentLatency * 1000, in ms
    latency,         \* this.latency, the time of the last PING, in ms
    pingLoop,        \* this.pingLoop: the id of the interval timer, 0 when none was set
    pingTimeout,     \* this.pingTimeout: the id of the timeout, 0 when none was set
    events,          \* EventEmitter._events: topic -> array of listeners
    futures,         \* the promises returned to callers, in creation order
    timers,          \* the pending setTimeout / setInterval callbacks
    timerSeq,        \* the number of timers created so far (the next timer id - 1)
    emitted,         \* the connection events emitted by the last handler
    now,             \* the clock, in ms
    heard,           \* (history) the command and channel of the lines a server's
                     \* script has had the client handle
    arg,             \* the argument a function of utils.ts or parser.ts is called
                     \* with on its own, outside any client (Null: no such call)
    ret              \* what the calls made with it returned, in order

client == <<ws, socks, sent, wasCloseCalled, reconnect, reconnecting,
            reconnections, reconnectTimer, reason, username, optsUsername,
            channels, optsChannels, options, userstate, moderators, lastJoined,
            currentLatency, latency, pingLoop, pingTimeout, events, futures,
            timers, timerSeq, emitted, now, heard>>

vars == <<client, arg, ret>>

\* the state as one record, for the handlers to thread through their calls;
\* a handler starts with nothing emitted
Cur ==
    [ws |-> ws, socks |-> socks, sent |-> sent, wasCloseCalled |->
     wasCloseCalled, reconnect |-> reconnect, reconnecting |-> reconnecting,
     reconnections |-> reconnections, reconnectTimer |-> reconnectTimer,
     reason |-> reason, username |-> username, optsUsername |-> optsUsername,
     channels |-> channels, optsChannels |-> optsChannels, options |->
     options, userstate |-> userstate, moderators |-> moderators,
     lastJoined |-> lastJoined, currentLatency |-> currentLatency,
     latency |-> latency, pingLoop |-> pingLoop, pingTimeout |-> pingTimeout,
     events |-> events, futures |-> futures, timers |-> timers, timerSeq |->
     timerSeq, emitted |-> <<>>, now |-> now, heard |-> heard]

\* the state a handler leaves behind; the clock is not a handler's to move
Becomes(st) ==
    /\ ws' = st.ws
    /\ socks' = st.socks
    /\ sent' = st.sent
    /\ wasCloseCalled' = st.wasCloseCalled
    /\ reconnect' = st.reconnect
    /\ reconnecting' = st.reconnecting
    /\ reconnections' = st.reconnections
    /\ reconnectTimer' = st.reconnectTimer
    /\ reason' = st.reason
    /\ username' = st.username
    /\ optsUsername' = st.optsUsername
    /\ channels' = st.channels
    /\ optsChannels' = st.optsChannels
    /\ options' = st.options
    /\ userstate' = st.userstate
    /\ moderators' = st.moderators
    /\ lastJoined' = st.lastJoined
    /\ currentLatency' = st.currentLatency
    /\ latency' = st.latency
    /\ pingLoop' = st.pingLoop
    /\ pingTimeout' = st.pingTimeout
    /\ events' = st.events
    /\ futures' = st.futures
    /\ timers' = st.timers
    /\ timerSeq' = st.timerSeq
    /\ emitted' = st.emitted
    /\ now' = now
    /\ heard' = st.heard
    /\ UNCHANGED <<arg, ret>>

\* the same for an initial state, at time 0, where a is the argument of the
\* calls made outside the client
StartsWith(st, a) ==
    /\ ws = st.ws
    /\ socks = st.socks
    /\ sent = st.sent
    /\ wasCloseCalled = st.wasCloseCalled
    /\ reconnect = st.reconnect
    /\ reconnecting = st.reconnecting
    /\ reconnections = st.reconnections
    /\ reconnectTimer = st.reconnectTimer
    /\ reason = st.reason
    /\ username = st.username
    /\ optsUsername = st.optsUsername
    /\ channels = st.channels
    /\ optsChannels = st.optsChannels
    /\ options = st.options
    /\ userstate = st.userstate
    /\ moderators = st.moderators
    /\ lastJoined = st.lastJoined
    /\ currentLatency = st.currentLatency
    /\ latency = st.latency
    /\ pingLoop = st.pingLoop
    /\ pingTimeout = st.pingTimeout
    /\ events = st.events
    /\ futures = st.futures
    /\ timers = st.timers
    /\ timerSeq = st.timerSeq
    /\ emitted = st.emitted
    /\ now = 0
    /\ heard = st.heard
    /\ arg = a
    /\ ret = <<>>

Starts(st) == StartsWith(st, Null)

\* a call made outside the client returns value
Returns(value) == ret' = Append(ret, value) /\ UNCHANGED <<client, arg>>

\* ------------------------------------------------------------ utils.ts
\* String.prototype.toLowerCase on ASCII letters
UpperCase == "ABCDEFGHIJKLMNOPQRSTUVWXYZ"
LowerCase == "abcdefghijklmnopqrstuvwxyz"

lowerChar(c) ==
    IF \E i \in 1..Len(UpperCase) : SubSeq(UpperCase, i, i) = c
    THEN LET i == CHOOSE i \in 1..Len(UpperCase) : SubSeq(UpperCase, i, i) = c
         IN  SubSeq(LowerCase, i, i)
    ELSE c

RECURSIVE toLowerCase(_)
toLowerCase(str) ==
    IF Len(str) = 0 THEN ""
    ELSE lowerChar(SubSeq(str, 1, 1)) \o toLowerCase(SubSeq(str, 2, Len(str)))

\* a faulty channel(), which prepends '#' to every name
channelPrefixed(str) == "#" \o toLowerCase(IF str = Null THEN "" ELSE str)

\* utils.channel: lower case, '#' prepended when absent (Null: a missing argument)
channel(str) ==
    LET channelName == toLowerCase(IF str = Null THEN "" ELSE str)
    IN  IF Len(channelName) > 0 /\ SubSeq(channelName, 1, 1) = "#" THEN channelName
        ELSE "#" \o channelName

\* utils.username: lower case, a leading '#' dropped
utilsUsername(str) ==
    LET userName == toLowerCase(IF str = Null THEN "" ELSE str)
    IN  IF Len(userName) > 0 /\ SubSeq(userName, 1, 1) = "#"
        THEN SubSeq(userName, 2, Len(userName))
        ELSE userName

\* utils.token: a leading 'oauth:' (any case) dropped
token(str) ==
    IF Len(str) >= 6 /\ toLowerCase(SubSeq(str, 1, 6)) = "oauth:"
    THEN SubSeq(str, 7, Len(str))
    ELSE str

\* utils.password: 'oauth:' prepended to a non-empty token
password(str) == IF token(str) = "" THEN "" ELSE "oauth:" \o token(str)

\* utils.escapeIRC: each character of escapeIRCRegex is replaced by a
\* backslash and its letter in ircUnescapedChars, or by itself when that
\* table has none for it (the backslash)
LF == "\n"
CR == "\r"
Backslash == "\\"

escapeChar(c) ==
    CASE c = " " -> Backslash \o "s"
      [] c = LF -> Backslash \o "n"
      [] c = ";" -> Backslash \o ":"
      [] c = CR -> Backslash \o "r"
      [] OTHER -> c

RECURSIVE escapeIRC(_)
escapeIRC(msg) ==
    IF Len(msg) = 0 THEN msg
    ELSE escapeChar(SubSeq(msg, 1, 1)) \o escapeIRC(SubSeq(msg, 2, Len(msg)))

\* utils.unescapeIRC: each match of unescapeIRCRegex, a backslash and one of
\* s n : r \, from left to right, is replaced by what ircEscapedChars holds
\* for the character, or by the character when the table has none for it
unescapeChar(p) ==
    CASE p = "s" -> " "
      [] p = "n" -> ""
      [] p = ":" -> ";"
      [] p = "r" -> ""
      [] OTHER -> p

RECURSIVE unescapeIRC(_)
unescapeIRC(msg) ==
    IF Len(msg) = 0 THEN msg
    ELSE IF /\ Len(msg) >= 2
            /\ SubSeq(msg, 1, 1) = Backslash
            /\ SubSeq(msg, 2, 2) \in {"s", "n", ":", "r", Backslash}
         THEN unescapeChar(SubSeq(msg, 2, 2)) \o unescapeIRC(SubSeq(msg, 3, Len(msg)))
         ELSE SubSeq(msg, 1, 1) \o unescapeIRC(SubSeq(msg, 2, Len(msg)))

\* utils.isJustinfan: /^(justinfan)(\d+$)/
\* a faulty test, which takes every name that begins with justinfan
isJustinfanPrefix(name) ==
    Len(name) > Len("justinfan") /\ SubSeq(name, 1, Len("justinfan")) = "justinfan"

DecimalDigits == {"0", "1", "2", "3", "4", "5", "6", "7", "8", "9"}

isJustinfan(name) ==
    /\ Len(name) > Len("justinfan")
    /\ SubSeq(name, 1, Len("justinfan")) = "justinfan"
    /\ \A i \in Len("justinfan") + 1 .. Len(name) : SubSeq(name, i, i) \in DecimalDigits

\* the raw channel arguments join() is called with, two of them one channel
RawChans == {"a", "#A", "B"}

\* the raw channel arguments of ban()
CmdChans == {"#A", "B"}

\* channel names the server speaks about
Chans == {"#a", "#b"}

\* _getPromiseDelay: Math.max(600, this.currentLatency * 1000 + 100)
getPromiseDelay(st) ==
    IF st.currentLatency + LatencySlack > MinPromiseDelay
    THEN st.currentLatency + LatencySlack
    ELSE MinPromiseDelay

\* a faulty _isConnected, which looks for a socket and not at its readyState
hasSocket(st) == st.ws # 0

\* _isConnected: this.ws !== null && this.ws.readyState === 1
isConnected(st) == st.ws # 0 /\ st.socks[st.ws].readyState = OPEN

\* ------------------------------------------------------------- promises
\* The promise a call returns: the call (kind, args), the socket connect()
\* opened for it, the time of the call, the timeout the call armed (0: none),
\* its state, and what join()'s closure keeps (joinedChannels in insertion
\* order, hasFulfilled).  `fired` and `confirmed` are history: whether the
\* promise's topic was emitted while it was pending, for a join the
\* channels of its request that _promiseJoin confirmed meanwhile, and for a
\* disconnect whether the client was connected at the call.
NewFuture(kind, args, st) ==
    [kind |-> kind, args |-> args, sock |-> 0, at |-> st.now, delay |-> 0,
     status |-> "pending", value |-> <<>>, err |-> Null,
     joinedChannels |-> <<>>, hasFulfilled |-> FALSE, isArray |-> TRUE,
     fired |-> FALSE, confirmed |-> {}, connected |-> FALSE]

\* resolve(value): a promise settles once, later calls change nothing
resolve(st, f, value) ==
    IF st.futures[f].status = "pending"
    THEN [st EXCEPT !.futures[f].status = "resolved", !.futures[f].value = value]
    ELSE st

\* reject(err)
reject(st, f, err) ==
    IF st.futures[f].status = "pending"
    THEN [st EXCEPT !.futures[f].status = "rejected", !.futures[f].err = err]
    ELSE st

\* ws.send(frame) on the client's current socket
send(st, frame) == [st EXCEPT !.sent = Append(@, [sock |-> st.ws, frame |-> frame])]

\* setTimeout(callback, delay): the callback is named by its kind, the promise
\* f it closes over (0: none) and, for the join queue, the channels still queued
setTimer(st, kind, f, chans, delay) ==
    [st EXCEPT !.timerSeq = @ + 1,
               !.timers = Append(@, [id |-> st.timerSeq + 1, kind |-> kind, f |-> f,
                                     chans |-> chans, due |-> st.now + delay])]

setTimeout(st, kind, f, delay) == setTimer(st, kind, f, <<>>, delay)

\* clearTimeout(id), clearInterval(id)
clearTimeout(st, id) ==
    LET keep(t) == t.id # id
    IN  [st EXCEPT !.timers = SelectSeq(@, keep)]

\* --------------------------------------------------------- EventEmitter
\* the topics of the permission-error NOTICE, in the order of its emits call
PermissionTopics ==
    <<"notice", "_promiseBan", "_promiseClear", "_promiseUnban", "_promiseTimeout",
      "_promiseDeletemessage", "_promiseMods", "_promiseMod", "_promiseUnmod",
      "_promiseVips", "_promiseVip", "_promiseUnvip", "_promiseCommercial",
      "_promiseHost", "_promiseUnhost", "_promiseJoin", "_promisePart",
      "_promiseR9kbeta", "_promiseR9kbetaoff", "_promiseSlow", "_promiseSlowoff",
      "_promiseFollowers", "_promiseFollowersoff", "_promiseSubscribers",
      "_promiseSubscribersoff", "_promiseEmoteonly", "_promiseEmoteonlyoff",
      "_promiseWhisper">>

\* the internal topics (the keys _events can hold); every other event name is
\* a public one, whose emission is recorded in `emitted`
Topics ==
    {PermissionTopics[i] : i \in 2..Len(PermissionTopics)}
        \cup {"_promiseColor", "_promiseConnect", "_promiseDisconnect", "_promisePing"}

\* the public event the user of the model listens to
UserTopics == {"notice"}

SeqRemoveAt(s, i) == SubSeq(s, 1, i - 1) \o SubSeq(s, i + 1, Len(s))

IndexOf(s, x) ==
    IF \E i \in 1..Len(s) : s[i] = x
    THEN CHOOSE i \in 1..Len(s) : s[i] = x /\ \A j \in 1..(i - 1) : s[j] # x
    ELSE 0

SeqToSet(s) == {s[i] : i \in 1..Len(s)}

\* on(eventType, listener): listeners.push(listener)
on(st, eventType, listener) == [st EXCEPT !.events[eventType] = Append(@, listener)]

\* off(eventType, listener): splice the first occurrence out of the array
off(st, eventType, listener) ==
    LET i == IndexOf(st.events[eventType], listener)
    IN  IF i = 0 THEN st
        ELSE [st EXCEPT !.events[eventType] = SeqRemoveAt(@, i)]

\* once(eventType, listener): on(eventType, onceListener), the wrapper that
\* removes itself and then calls the listener
once(st, eventType, f) == on(st, eventType, [f |-> f, once |-> TRUE])

\* ------------------------------------------------- Client: the commands
\* opts.delay of a command: undefined (no timeout armed), null (the promise
\* delay) or a number of ms
DelayUndefined == [tag |-> "undefined", ms |-> 0]
DelayNull == [tag |-> "null", ms |-> 0]
DelayMs(n) == [tag |-> "number", ms |-> n]

\* channels.map(ch => utils.channel(ch))
RECURSIVE mapChannel(_)
mapChannel(chans) ==
    IF Len(chans) = 0 THEN <<>>
    ELSE <<channel(chans[1])>> \o mapChannel(Tail(chans))

\* the commands of the model and the topic each listens on
CommandTopic(kind) ==
    CASE kind = "ban" -> "_promiseBan"
      [] kind = "clear" -> "_promiseClear"
      [] kind = "color" -> "_promiseColor"
      [] kind = "slow" -> "_promiseSlow"
      [] kind = "unhost" -> "_promiseUnhost"
      [] kind = "part" -> "_promisePart"
      [] kind = "join" -> "_promiseJoin"
      [] kind = "connect" -> "_promiseConnect"
      [] kind = "disconnect" -> "_promiseDisconnect"
      [] kind = "ping" -> "_promisePing"
      [] kind = "mods" -> "_promiseMods"
      [] kind = "say" -> Null

\* the argument of _sendCommand each method builds: delay, channel (or none,
\* a raw command) and the command text, as its words
CommandOpts(kind, args) ==
    CASE kind = "ban" ->
            [delay |-> DelayUndefined, hasChannel |-> TRUE, channel |-> args[1],
             command |-> <<"/ban", utilsUsername(args[2]), args[3]>>]
      [] kind = "clear" ->
            [delay |-> DelayUndefined, hasChannel |-> TRUE, channel |-> args[1],
             command |-> <<"/clear">>]
      [] kind = "color" ->
            [delay |-> DelayUndefined, hasChannel |-> TRUE, channel |-> GlobalDefaultChannel,
             command |-> <<"/color", args[1]>>]
      [] kind = "slow" ->
            [delay |-> DelayUndefined, hasChannel |-> TRUE, channel |-> args[1],
             command |-> <<"/slow", args[2]>>]
      [] kind = "unhost" ->
            [delay |-> DelayMs(HostDelay), hasChannel |-> TRUE, channel |-> args[1],
             command |-> <<"/unhost">>]
      [] kind = "part" ->
            [delay |-> DelayNull, hasChannel |-> FALSE, channel |-> Null,
             command |-> <<"PART", args[1]>>]
      [] kind = "join" ->
            [delay |-> DelayUndefined, hasChannel |-> FALSE, channel |-> Null,
             command |-> <<"JOIN">> \o mapChannel(args)]
      [] kind = "ping" ->
            [delay |-> DelayNull, hasChannel |-> FALSE, channel |-> Null,
             command |-> <<"PING">>]
      [] kind = "mods" ->
            [delay |-> DelayUndefined, hasChannel |-> TRUE, channel |-> args[1],
             command |-> <<"/mods">>]
      [] kind = "say" ->
            [delay |-> DelayUndefined, hasChannel |-> TRUE, channel |-> args[1],
             command |-> <<args[2]>>]

\* !err of the listeners: null and the empty string are falsy
falsy(err) == err = Null \/ err = ""

\* a faulty listener value, which keeps the channel as the caller wrote it
CommandValueRaw(kind, args) ==
    CASE kind = "ban" -> <<args[1], utilsUsername(args[2]), args[3]>>
      [] kind = "color" -> <<args[1]>>
      [] kind = "slow" -> <<args[1], args[2]>>
      [] OTHER -> <<args[1]>>

\* what a command's listener resolves its promise to
CommandValue(kind, args) ==
    CASE kind = "ban" -> <<channel(args[1]), utilsUsername(args[2]), args[3]>>
      [] kind = "color" -> <<args[1]>>
      [] kind = "slow" -> <<channel(args[1]), args[2]>>
      [] OTHER -> <<channel(args[1])>>

\* the moderators of a channel: this.moderators[chan], none without the key
roster(st, chan) == IF chan \in DOMAIN st.moderators THEN st.moderators[chan] ELSE <<>>

\* if (!this.moderators[chan]) this.moderators[chan] = []
withRoster(st, chan) ==
    IF chan \in DOMAIN st.moderators THEN st
    ELSE [st EXCEPT !.moderators = (chan :> <<>>) @@ @]

\* a faulty push, which does not look whether the name is listed
pushModeratorAgain(st, chan, name) ==
    [withRoster(st, chan) EXCEPT !.moderators[chan] = Append(@, name)]

\* the key is made when missing, and the name pushed unless it is included
pushModerator(st, chan, name) ==
    IF name \in SeqToSet(roster(st, chan)) THEN withRoster(st, chan)
    ELSE [withRoster(st, chan) EXCEPT !.moderators[chan] = Append(@, name)]

\* mods()'s listener: mods.forEach(username => ...)
RECURSIVE pushModerators(_, _, _)
pushModerators(st, chan, mods) ==
    IF Len(mods) = 0 THEN st
    ELSE pushModerators(pushModerator(st, chan, mods[1]), chan, Tail(mods))

\* isMod(channel, username), the value returned
isMod(st, chan, name) == utilsUsername(name) \in SeqToSet(roster(st, channel(chan)))

\* join()'s listener(err, joinedChannel)
\* Set.add: the set keeps its elements in insertion order
setAdd(seq, x) == IF x \in SeqToSet(seq) THEN seq ELSE Append(seq, x)

\* a faulty "all channels have joined" step, which resolves on the first
\* channel confirmed
joinListenerJoinedAny(s1, f, expectedChannels) ==
    resolve([off(s1, "_promiseJoin", [f |-> f, once |-> FALSE])
                EXCEPT !.futures[f].hasFulfilled = TRUE], f,
            IF s1.futures[f].isArray THEN s1.futures[f].joinedChannels
            ELSE <<s1.futures[f].joinedChannels[1]>>)

\* the listener's "all channels have joined" step, on the state s1 in which
\* joinedChannels holds the channel just confirmed
joinListenerJoined(s1, f, expectedChannels) ==
    IF Len(s1.futures[f].joinedChannels) = Cardinality(expectedChannels)
    THEN resolve([off(s1, "_promiseJoin", [f |-> f, once |-> FALSE])
                     EXCEPT !.futures[f].hasFulfilled = TRUE], f,
                 IF s1.futures[f].isArray THEN s1.futures[f].joinedChannels
                 ELSE <<s1.futures[f].joinedChannels[1]>>)
    ELSE s1

joinListenerFor(st, f, err, normalizedJoinedChannel, expectedChannels) ==
    IF normalizedJoinedChannel \notin expectedChannels THEN st
    ELSE IF ~falsy(err)
    THEN reject([off(st, "_promiseJoin", [f |-> f, once |-> FALSE])
                    EXCEPT !.futures[f].hasFulfilled = TRUE], f, err)
    ELSE joinListenerJoined(
            [st EXCEPT !.futures[f].joinedChannels = setAdd(@, normalizedJoinedChannel)],
            f, expectedChannels)

joinListener(st, f, err, joinedChannel) ==
    joinListenerFor(st, f, err, channel(joinedChannel),
                    SeqToSet(mapChannel(st.futures[f].args)))

\* one listener called with the arguments of an emit: the once wrapper takes
\* itself off the array first; then the closure the command registered runs
RECURSIVE command(_, _, _, _)

\* a listener of the user, registered with on('notice', ...) for no promise
\* (f = 0), which calls ban() whatever the notice is
UserListener == [f |-> 0, once |-> FALSE]

userListener(st) ==
    IF Len(st.futures) < MaxFutures
    THEN command(st, "ban", <<"#A", "BadUser", "reason">>, TRUE)
    ELSE st

commandListener(st, eventType, l, args) ==
    LET s1 == IF l.once THEN off(st, eventType, l) ELSE st
        fut == st.futures[l.f]
    IN  CASE fut.kind = "join" -> joinListener(s1, l.f, args[1], args[2])
          [] fut.kind = "connect" ->
                IF falsy(args[1]) THEN resolve(s1, l.f, <<Server, Port>>)
                ELSE reject(s1, l.f, args[1])
          [] fut.kind = "disconnect" -> resolve(s1, l.f, <<Server, Port>>)
          [] fut.kind = "ping" -> resolve(s1, l.f, <<args[1]>>)
          [] fut.kind = "mods" ->
                IF falsy(args[1])
                THEN resolve(pushModerators(s1, channel(fut.args[1]), args[2]), l.f, args[2])
                ELSE reject(s1, l.f, args[1])
          [] OTHER ->
                IF falsy(args[1]) THEN resolve(s1, l.f, CommandValue(fut.kind, fut.args))
                ELSE reject(s1, l.f, args[1])

CallListener(st, eventType, l, args) ==
    IF l = UserListener THEN userListener(st) ELSE commandListener(st, eventType, l, args)

\* listeners.forEach(listener => listener.apply(this, args)): the indices
\* 0 .. length-at-the-start - 1 of the live array, each called if it is still
\* an index of the array when its turn comes
\* (computed(s) is TRUE of every state; testing it makes TLC compute s before
\* the next iteration instead of nesting the pending computations)
computed(s) == s.timerSeq >= 0

RECURSIVE forEachListener(_, _, _, _, _)
forEachFrom(s1, eventType, k, len, args) ==
    IF computed(s1) THEN forEachListener(s1, eventType, k, len, args) ELSE s1

forEachListener(st, eventType, k, len, args) ==
    IF k > len THEN st
    ELSE IF k > Len(st.events[eventType])
    THEN forEachListener(st, eventType, k + 1, len, args)
    ELSE forEachFrom(CallListener(st, eventType, st.events[eventType][k], args),
                     eventType, k + 1, len, args)

\* the history of an emit: every pending promise of the topic notes it
RECURSIVE noteFiredFrom(_, _, _, _)
noteFiredFrom(st, eventType, args, f) ==
    IF f > Len(st.futures) THEN st
    ELSE IF st.futures[f].status = "pending" /\ CommandTopic(st.futures[f].kind) = eventType
    THEN noteFiredFrom([st EXCEPT !.futures[f].fired = TRUE,
                                  !.futures[f].confirmed =
                                      IF /\ eventType = "_promiseJoin"
                                         /\ falsy(args[1])
                                         /\ channel(args[2]) \in
                                                SeqToSet(mapChannel(st.futures[f].args))
                                      THEN @ \cup {channel(args[2])} ELSE @],
                       eventType, args, f + 1)
    ELSE noteFiredFrom(st, eventType, args, f + 1)

noteFired(st, eventType, args) == noteFiredFrom(st, eventType, args, 1)

\* the public events of the connection's life, which `emitted` records; the
\* other public events have no listener in the model and leave no trace
ConnectionEvents ==
    {"connecting", "logon", "connected", "disconnected", "reconnect", "maxreconnect"}

\* the public events of the moderator roster, recorded as well
RosterEvents == {"mod", "unmod"}

\* emit(eventType, ...args)
emit(st, eventType, args) ==
    IF eventType \in ConnectionEvents \cup RosterEvents
    THEN [st EXCEPT !.emitted = Append(@, eventType)]
    ELSE IF eventType \notin Topics \cup UserTopics THEN st
    ELSE forEachListener(noteFired(st, eventType, args), eventType, 1,
                         Len(st.events[eventType]), args)

\* emits(types, values): values[i], or the last value when there are fewer
RECURSIVE emitsFrom(_, _, _, _)
emitsNext(s1, types, values, i) ==
    IF computed(s1) THEN emitsFrom(s1, types, values, i) ELSE s1

emitsFrom(st, types, values, i) ==
    IF i > Len(types) THEN st
    ELSE emitsNext(emit(st, types[i],
                        IF i <= Len(values) THEN values[i] ELSE values[Len(values)]),
                   types, values, i + 1)

emits(st, types, values) == emitsFrom(st, types, values, 1)

\* ------------------------------------------------ ClientBase._sendCommand
RECURSIVE JoinStr(_, _)
JoinStr(seq, sep) ==
    IF Len(seq) = 0 THEN ""
    ELSE IF Len(seq) = 1 THEN seq[1]
    ELSE seq[1] \o sep \o JoinStr(Tail(seq), sep)

\* the frame _sendCommand builds (no tags): PRIVMSG <chan> :<command>, or the
\* raw command
CommandFrame(opts) ==
    IF opts.hasChannel
    THEN "PRIVMSG " \o channel(opts.channel) \o " :" \o JoinStr(opts.command, " ")
    ELSE IF opts.command[1] = "JOIN"
    THEN "JOIN " \o JoinStr(Tail(opts.command), ",")
    ELSE JoinStr(opts.command, " ")

\* this.pingTimeout = setTimeout(...): the timer just set is the one kept
keepPingTimeout(s2) == [s2 EXCEPT !.pingTimeout = s2.timerSeq]

\* the fn each method hands to _sendCommand: join() registers its listener
\* with on() and arms its own timeout, ping() notes the time and arms the
\* timeout that closes the socket, and every command but join() registers a
\* once-listener on its topic; say() with a command resolves at once
commandFn(st, f) ==
    LET fut == st.futures[f]
    IN  IF fut.kind = "join"
        THEN LET delay == getPromiseDelay(st) * Len(fut.args)
             IN  setTimeout(on([st EXCEPT !.futures[f].delay = delay],
                               "_promiseJoin", [f |-> f, once |-> FALSE]),
                            "joinDelay", f, delay)
        ELSE IF fut.kind = "ping"
        THEN once(keepPingTimeout(setTimeout([st EXCEPT !.latency = st.now],
                                             "pingTimeout", 0, st.options.timeout)),
                  "_promisePing", f)
        ELSE IF fut.kind = "say" THEN resolve(st, f, fut.args)
        ELSE once(st, CommandTopic(fut.kind), f)

\* _sendCommand(opts, fn) for the promise f just created
sendCommand(st, f) ==
    LET fut == st.futures[f]
        opts == CommandOpts(fut.kind, fut.args)
    IN  IF ~isConnected(st) THEN reject(st, f, "Not connected to server.")
        ELSE LET delay == IF opts.delay.tag = "null" THEN getPromiseDelay(st)
                          ELSE opts.delay.ms
                 s1 == IF opts.delay.tag \in {"null", "number"}
                       THEN setTimeout([st EXCEPT !.futures[f].delay = delay],
                                       "promiseDelay", f, delay)
                       ELSE st
             IN  commandFn(send(s1, CommandFrame(opts)), f)

\* a method of Client called with args: the promise is created and
\* _sendCommand runs (isArray: join() was handed an array, not a string)
command(st, kind, args, isArray) ==
    LET f == Len(st.futures) + 1
        s1 == [st EXCEPT !.futures = Append(@, [NewFuture(kind, args, st)
                                                   EXCEPT !.isArray = isArray])]
    IN  sendCommand(s1, f)

\* join()'s timeout callback
\* normalizedChannels.filter(ch => !joinedChannels.has(ch))
failedToJoin(normalizedChannels, joinedChannels) ==
    LET notJoined(ch) == ch \notin SeqToSet(joinedChannels)
    IN  SelectSeq(normalizedChannels, notJoined)

joinErrorMsg(failedChannels, normalizedChannels) ==
    IF Len(failedChannels) = Len(normalizedChannels)
    THEN "No response from Twitch for any channels."
    ELSE "No response from Twitch for channels: " \o JoinStr(failedChannels, ", ")

joinTimeoutFor(st, f, failedChannels, normalizedChannels) ==
    emit(off(st, "_promiseJoin", [f |-> f, once |-> FALSE]), "_promiseJoin",
         <<joinErrorMsg(failedChannels, normalizedChannels),
           IF Len(failedChannels) > 0 THEN failedChannels[1] ELSE normalizedChannels[1]>>)

joinTimeout(st, f) ==
    IF st.futures[f].hasFulfilled THEN st
    ELSE joinTimeoutFor(st, f,
                        failedToJoin(mapChannel(st.futures[f].args),
                                     st.futures[f].joinedChannels),
                        mapChannel(st.futures[f].args))

\* ------------------------------------------------ ClientBase._sendMessage
\* String.prototype.startsWith, slice(a, b) and lastIndexOf of one character
\* (indices from 0, as in the source)
startsWith(str, prefix) ==
    Len(str) >= Len(prefix) /\ SubSeq(str, 1, Len(prefix)) = prefix

slice(str, a, b) == SubSeq(str, a + 1, IF b > Len(str) THEN Len(str) ELSE b)

lastIndexOf(str, c) ==
    LET at == {i \in 1..Len(str) : SubSeq(str, i, i) = c}
    IN  IF at = {} THEN -1 ELSE (CHOOSE i \in at : \A j \in at : j <= i) - 1

\* where a long message is cut: at the last space of its first 500
\* characters, or after them when there is none
lastSpace(msg) ==
    IF lastIndexOf(slice(msg, 0, MaxLength), " ") = -1 THEN MaxLength
    ELSE lastIndexOf(slice(msg, 0, MaxLength), " ")

\* _sendMessage once it may send: the channel gets a userstate, a long
\* message is cut and its remainder left to a timer, and the frame goes to
\* the socket (the events chat, message and action have no listener in the
\* model).  `origin` is history: the promise of the user's call the text
\* stems from.
sendText(st, chan, message, origin) ==
    LET s1 == [st EXCEPT !.userstate = @ \cup {channel(chan)}]
    IN  IF Len(message) > MaxLength
        THEN send(setTimer(s1, "sendRest", origin,
                           <<chan, slice(message, lastSpace(message), Len(message))>>,
                           SplitDelay),
                  "PRIVMSG " \o channel(chan) \o " :"
                      \o slice(message, 0, lastSpace(message)))
        ELSE send(s1, "PRIVMSG " \o channel(chan) \o " :" \o message)

\* _sendMessage(opts, fn) for the promise f, whose fn resolves it to value
sendMessage(st, f, chan, message, value) ==
    IF ~isConnected(st) THEN reject(st, f, "Not connected to server.")
    ELSE IF isJustinfan(st.username) THEN reject(st, f, "Cannot send anonymous messages.")
    ELSE resolve(sendText(st, chan, message, f), f, value)

\* the _sendMessage of a remainder, whose promise nobody keeps
sendRest(st, chan, message, origin) ==
    IF ~isConnected(st) \/ isJustinfan(st.username) THEN st
    ELSE sendText(st, chan, message, origin)

\* the control character U+0001 that frames an action message
SOH == "^"

\* Client.say: a message that starts like a command goes to _sendCommand, or
\* to action() when it is /me; any other goes to _sendMessage
say(st, chan, message) ==
    LET f == Len(st.futures) + 1
        s1 == [st EXCEPT !.futures =
                   Append(@, NewFuture("say", <<channel(chan), message>>, st))]
    IN  IF \/ startsWith(message, ".") /\ ~startsWith(message, "..")
           \/ startsWith(message, "/")
           \/ startsWith(message, "\\")
        THEN IF slice(message, 1, 4) = "me "
             THEN sendMessage(s1, f, channel(chan),
                              SOH \o "ACTION " \o slice(message, 4, Len(message)) \o SOH,
                              <<channel(chan), slice(message, 4, Len(message))>>)
             ELSE sendCommand(s1, f)
        ELSE sendMessage(s1, f, channel(chan), message, <<channel(chan), message>>)

\* ------------------------------------------------------------ parser.msg
\* String.prototype.indexOf of one character from a position on, charAt, and
\* split at one character (indices from 0, as in the source)
indexOf(data, c, position) ==
    LET at == {i \in (position + 1)..Len(data) : SubSeq(data, i, i) = c}
    IN  IF at = {} THEN -1 ELSE (CHOOSE i \in at : \A j \in at : i <= j) - 1

charAt(data, position) == slice(data, position, position + 1)

RECURSIVE split(_, _)
split(str, c) ==
    IF indexOf(str, c, 0) = -1 THEN <<str>>
    ELSE <<slice(str, 0, indexOf(str, c, 0))>>
             \o split(slice(str, indexOf(str, c, 0) + 1, Len(str)), c)

\* while (data.charCodeAt(position) === 32) position++
RECURSIVE skipSpaces(_, _)
skipSpaces(data, position) ==
    IF charAt(data, position) = " " THEN skipSpaces(data, position + 1) ELSE position

\* the values of a tag: a string, or true
StringValue(str) == <<"string", str>>
True == <<"boolean", "true">>

\* message.tags[key] = value on the object literal {}: the key __proto__ is
\* the accessor of Object.prototype, whose setter drops a value that is
\* neither an object nor null and adds no property
setTag(tags, key, value) ==
    IF key = "__proto__" THEN tags
    ELSE (key :> value) @@ [k \in DOMAIN tags \ {key} |-> tags[k]]

\* tag.slice(tag.indexOf('=') + 1) || true
tagValue(tag) ==
    IF slice(tag, indexOf(tag, "=", 0) + 1, Len(tag)) = "" THEN True
    ELSE StringValue(slice(tag, indexOf(tag, "=", 0) + 1, Len(tag)))

RECURSIVE msgTags(_, _, _)
msgTags(rawTags, i, tags) ==
    IF i > Len(rawTags) THEN tags
    ELSE msgTags(rawTags, i + 1,
                 setTag(tags, split(rawTags[i], "=")[1], tagValue(rawTags[i])))

\* the loop over the parameters, from position on
RECURSIVE msgParams(_, _, _)
msgParams(data, position, params) ==
    IF position >= Len(data) THEN params
    ELSE IF charAt(data, position) = ":"
         THEN Append(params, slice(data, position + 1, Len(data)))
         ELSE IF indexOf(data, " ", position) # -1
              THEN msgParams(data, skipSpaces(data, indexOf(data, " ", position) + 1),
                             Append(params, slice(data, position,
                                                  indexOf(data, " ", position))))
              ELSE Append(params, slice(data, position, Len(data)))

\* the message parser.msg returns when it finds none
NoMessage == [raw |-> Null]

\* the command and the parameters, from position on
msgCommand(data, position, message) ==
    IF indexOf(data, " ", position) = -1
    THEN IF Len(data) > position
         THEN [message EXCEPT !.command = slice(data, position, Len(data))]
         ELSE NoMessage
    ELSE [message EXCEPT
            !.command = slice(data, position, indexOf(data, " ", position)),
            !.params = msgParams(data,
                                 skipSpaces(data, indexOf(data, " ", position) + 1),
                                 <<>>)]

\* the prefix, when a colon is at position
msgPrefix(data, position, message) ==
    IF charAt(data, position) = ":"
    THEN IF indexOf(data, " ", position) = -1 THEN NoMessage
         ELSE msgCommand(data, skipSpaces(data, indexOf(data, " ", position) + 1),
                         [message EXCEPT
                            !.prefix = slice(data, position + 1,
                                             indexOf(data, " ", position))])
    ELSE msgCommand(data, position, message)

NoTags == [k \in {} |-> True]

\* parser.msg (msg names a parameter elsewhere)
parserMsg(data) ==
    LET message == [raw |-> data, tags |-> NoTags, prefix |-> Null, command |-> Null,
                    params |-> <<>>]
    IN  IF charAt(data, 0) = "@"
        THEN IF indexOf(data, " ", 0) = -1 THEN NoMessage
             ELSE msgPrefix(data, skipSpaces(data, indexOf(data, " ", 0) + 1),
                            [message EXCEPT
                               !.tags = msgTags(split(slice(data, 1, indexOf(data, " ", 0)),
                                                      ";"),
                                                1, NoTags)])
        ELSE msgPrefix(data, skipSpaces(data, 0), message)

\* ---------------------------------------------------------------- Queue
\* Queue.next() on the items still queued: run the first, and if another one
\* follows set the timer for it
\* a faulty delay, the configured one as it is
joinIntervalConfigured(st) == st.options.joinInterval

\* the delay of the queue case '376' builds
joinInterval(st) ==
    IF st.options.joinInterval < MinJoinInterval THEN MinJoinInterval
    ELSE st.options.joinInterval

queueRest(s1, chans) ==
    IF Len(chans) > 1 THEN setTimer(s1, "joinQueue", 0, Tail(chans), joinInterval(s1))
    ELSE s1

queueNext(st, chans) ==
    IF Len(chans) = 0 THEN st
    ELSE queueRest(IF isConnected(st) THEN command(st, "join", <<chans[1]>>, FALSE)
                   ELSE st,
                   chans)

\* ------------------------------------------- ClientBase: the connection
\* the identity of the model's configurations: no identity at all (username
\* Null, an anonymous session), a username with a token, with or without its
\* 'oauth:', or a username without a password
optsPassword(st) ==
    CASE st.optsUsername = "Bob" -> "OAuth:tok"
      [] st.optsUsername = "Amy" -> "tok"
      [] OTHER -> ""

\* utils.justinfan(), one of its values
justinfan == "justinfan1000"

\* this.ws.close(): a connecting or open socket starts closing, a closing or
\* closed one is left as it is; on this.ws === null the call throws and ends
\* the handler, which has nothing after it in any caller
wsClose(st) ==
    IF st.ws # 0 /\ st.socks[st.ws].readyState \in {CONNECTING, OPEN}
    THEN [st EXCEPT !.socks[st.ws].readyState = CLOSING]
    ELSE st

\* a faulty connect(), which lets the reconnect timer decay without a cap
connectUncapped(st) ==
    LET f == Len(st.futures) + 1
        n == Len(st.socks) + 1
        s1 == [st EXCEPT
                 !.futures = Append(@, [NewFuture("connect", <<>>, st) EXCEPT !.sock = n]),
                 !.reconnectTimer = (st.reconnectTimer * st.options.reconnectDecay[1])
                                        \div st.options.reconnectDecay[2],
                 !.socks = Append(@, [readyState |-> CONNECTING, nick |-> FALSE, got376 |-> FALSE]),
                 !.ws = n]
    IN  once(s1, "_promiseConnect", f)

\* connect(): the reconnect timer decays, _openConnection replaces this.ws by
\* a new socket, and the promise listens once on _promiseConnect
connect(st) ==
    LET f == Len(st.futures) + 1
        n == Len(st.socks) + 1
        decayed == (st.reconnectTimer * st.options.reconnectDecay[1])
                       \div st.options.reconnectDecay[2]
        s1 == [st EXCEPT
                 !.futures = Append(@, [NewFuture("connect", <<>>, st) EXCEPT !.sock = n]),
                 !.reconnectTimer = IF decayed >= st.options.maxReconnectInterval
                                    THEN st.options.maxReconnectInterval ELSE decayed,
                 !.socks = Append(@, [readyState |-> CONNECTING, nick |-> FALSE, got376 |-> FALSE]),
                 !.ws = n]
    IN  once(s1, "_promiseConnect", f)

\* disconnect(); its promise remembers the socket of the call and whether it
\* was open
disconnect(st) ==
    LET f == Len(st.futures) + 1
        s1 == [st EXCEPT !.futures = Append(@, [NewFuture("disconnect", <<>>, st) EXCEPT
                                                   !.sock = st.ws,
                                                   !.connected = isConnected(st)])]
    IN  IF st.ws # 0 /\ st.socks[st.ws].readyState # CLOSED
        THEN once(wsClose([s1 EXCEPT !.wasCloseCalled = TRUE]), "_promiseDisconnect", f)
        ELSE reject(s1, f, "Cannot disconnect from server. Socket is not opened or connection is already closing.")

\* _onOpen, with the continuation of _getToken() that sends the handshake
sendPass(s2, pass) ==
    IF pass # "" THEN send(s2, "PASS " \o pass)
    ELSE IF isJustinfan(s2.username) THEN send(s2, "PASS SCHMOOPIIE")
    ELSE s2

sendNick(s3) == [send(s3, "NICK " \o s3.username) EXCEPT !.socks[s3.ws].nick = TRUE]

onOpen(st) ==
    IF ~isConnected(st) THEN st
    ELSE sendNick(sendPass(
            send(emit([emit(st, "connecting", <<Server, Port>>) EXCEPT
                          !.username = utilsUsername(IF st.optsUsername = Null
                                                     THEN justinfan ELSE st.optsUsername)],
                      "logon", <<>>),
                 "CAP REQ :twitch.tv/tags twitch.tv/commands twitch.tv/membership"),
            password(optsPassword(st))))

\* the reconnect step _onError and _onClose share: maxreconnect, then the
\* reconnect timer
\* a faulty reconnect step, which does not look at this.reconnecting
reconnectLaterAgain(s1) ==
    IF s1.reconnect /\ s1.reconnections <= s1.options.maxReconnectAttempts - 1
    THEN setTimeout(emit([s1 EXCEPT !.reconnecting = TRUE, !.reconnections = @ + 1],
                         "reconnect", <<>>),
                    "reconnect", 0, s1.reconnectTimer)
    ELSE s1

reconnectLater(s1) ==
    IF s1.reconnect /\ ~s1.reconnecting /\ s1.reconnections <= s1.options.maxReconnectAttempts - 1
    THEN setTimeout(emit([s1 EXCEPT !.reconnecting = TRUE, !.reconnections = @ + 1],
                         "reconnect", <<>>),
                    "reconnect", 0, s1.reconnectTimer)
    ELSE s1

scheduleReconnect(st) ==
    reconnectLater(IF st.reconnect /\ st.reconnections = st.options.maxReconnectAttempts
                   THEN emit(st, "maxreconnect", <<>>) ELSE st)

\* this.moderators = {}
NoModerators == [c \in {} |-> <<>>]

\* the start of _onError and _onClose: the per-connection state is dropped
\* and the ping timers are cleared
resetConnection(st) ==
    clearTimeout(clearTimeout([st EXCEPT !.moderators = NoModerators, !.userstate = {}],
                              st.pingLoop),
                 st.pingTimeout)

\* _onError
emitsReason(s1, types) == emits(s1, types, <<<<s1.reason>>>>)

onError(st) ==
    [scheduleReconnect(
        emitsReason([resetConnection(st) EXCEPT
                        !.reason = IF st.ws = 0 THEN "Connection closed."
                                   ELSE "Unable to connect."],
                    <<"_promiseConnect", "disconnected">>))
     EXCEPT !.ws = 0]

\* _onClose
closedByUser(s1) ==
    emits(s1, <<"_promiseConnect", "_promiseDisconnect", "disconnected">>,
          <<<<s1.reason>>, <<Null>>, <<s1.reason>>>>)

closedByServer(s1) == IF ~s1.wasCloseCalled THEN scheduleReconnect(s1) ELSE s1

onClosed(s0) ==
    IF s0.wasCloseCalled
    THEN closedByUser([s0 EXCEPT !.wasCloseCalled = FALSE, !.reason = "Connection closed."])
    ELSE closedByServer(emitsReason(s0, <<"_promiseConnect", "disconnected">>))

onClose(st) == [onClosed(resetConnection(st)) EXCEPT !.ws = 0]

\* ------------------------------------------- ClientBase.handleMessage
\* String.prototype.includes
includes(str, sub) ==
    \E i \in 1..(Len(str) - Len(sub) + 1) : SubSeq(str, i, i + Len(sub) - 1) = sub

\* str.split(sep)[0], for a separator of one character
RECURSIVE splitFirst(_, _)
splitFirst(str, sep) ==
    IF Len(str) = 0 \/ SubSeq(str, 1, 1) = sep THEN ""
    ELSE SubSeq(str, 1, 1) \o splitFirst(SubSeq(str, 2, Len(str)), sep)

\* message.prefix.split('!')[0]
nickOf(prefix) == splitFirst(prefix, "!")

\* a parsed line: prefix (Null: none), command, params, and the tags the
\* handlers of the model read: msg-id (Null: absent), slow ("absent", or its
\* value), whether subs-only is present, and user-type (Null: absent)
Message(prefix, cmd, params, msgid) ==
    [prefix |-> prefix, command |-> cmd, params |-> params, msgid |-> msgid,
     slow |-> "absent", subsOnly |-> FALSE, userType |-> Null]

Param(m, i) == IF Len(m.params) >= i THEN m.params[i] ELSE Null

\* new Set([...]) spread back into an array: first occurrences, in order
RECURSIVE dedupe(_)
dedupe(seq) ==
    IF Len(seq) = 0 THEN <<>>
    ELSE LET init == dedupe(SubSeq(seq, 1, Len(seq) - 1))
             last == seq[Len(seq)]
         IN  IF last \in SeqToSet(init) THEN init ELSE Append(init, last)

\* the ping loop's interval callback: PING, and the timeout for its PONG
\* a faulty interval callback, which sends PING and arms no timeout
pingLoopTickUnarmed(st) ==
    [(IF isConnected(st) THEN send(st, "PING") ELSE st) EXCEPT !.latency = st.now]

pingLoopTick(st) ==
    keepPingTimeout(setTimeout([(IF isConnected(st) THEN send(st, "PING") ELSE st)
                                   EXCEPT !.latency = st.now],
                               "pingTimeout", 0, st.options.timeout))

\* the callback of that timeout
pingTimeoutFired(st) ==
    IF st.ws = 0 THEN st
    ELSE clearTimeout(clearTimeout(wsClose([st EXCEPT !.wasCloseCalled = FALSE]),
                                   st.pingLoop), st.pingTimeout)

\* a faulty case '376', which queues the configured channels only, as listed
joinAllConfigured(s2) ==
    queueNext([s2 EXCEPT !.pingLoop = s2.timerSeq, !.channels = <<>>], s2.optsChannels)

\* case '376'
joinAll(s2) ==
    queueNext([s2 EXCEPT !.pingLoop = s2.timerSeq, !.channels = <<>>],
              dedupe(s2.optsChannels \o s2.channels))

on376(st) ==
    joinAll(setTimeout([emits([st EXCEPT !.userstate = @ \cup {GlobalDefaultChannel}],
                              <<"connected", "_promiseConnect">>,
                              <<<<Server, Port>>, <<Null>>>>)
                           EXCEPT !.reconnections = 0,
                                  !.reconnectTimer = st.options.reconnectInterval],
                       "pingLoop", 0, PingInterval))

\* the msg-ids of the NOTICE switch that fail one command, with its topic
FailureTopic(msgid) ==
    CASE msgid \in {"already_banned", "bad_ban_admin", "bad_ban_anon",
                    "bad_ban_broadcaster", "bad_ban_global_mod", "bad_ban_mod",
                    "bad_ban_self", "bad_ban_staff", "usage_ban"} -> "_promiseBan"
      [] msgid = "usage_clear" -> "_promiseClear"
      [] msgid \in {"usage_color", "turbo_only_color"} -> "_promiseColor"
      [] msgid = "usage_slow_on" -> "_promiseSlow"
      [] msgid = "usage_slow_off" -> "_promiseSlowoff"
      [] msgid \in {"usage_unhost", "not_hosting"} -> "_promiseUnhost"
      [] OTHER -> Null

\* the msg-ids that complete one command, with its topic
SuccessTopic(msgid) ==
    CASE msgid = "ban_success" -> "_promiseBan"
      [] msgid = "color_changed" -> "_promiseColor"
      [] OTHER -> Null

PermissionMsgids ==
    {"no_permission", "msg_banned", "msg_room_not_found", "msg_channel_suspended",
     "tos_ban", "invalid_user"}

\* msg-ids the switch ignores (slow and followers are read from ROOMSTATE)
IgnoredMsgids ==
    {"slow_on", "slow_off", "followers_on_zero", "followers_on", "followers_off",
     "host_on", "host_off"}

\* the default case of the NOTICE switch: a login failure closes the socket
\* with reconnect off and this.reason set (Null: the text is no login
\* failure), anything else is a plain notice
loginFailureReason(msg) ==
    LET text == IF msg = Null THEN "" ELSE msg
    IN  IF includes(text, "Login unsuccessful") \/ includes(text, "Login authentication failed")
        THEN text
        ELSE IF includes(text, "Error logging in") \/ includes(text, "Improperly formatted auth")
        THEN text
        ELSE IF includes(text, "Invalid NICK")
        THEN "Invalid NICK."
        ELSE Null

\* a faulty default case, which leaves this.reconnect as it is
noticeDefaultReconnects(st, chan, msgid, msg) ==
    IF loginFailureReason(msg) # Null
    THEN wsClose([st EXCEPT !.wasCloseCalled = FALSE, !.reason = loginFailureReason(msg)])
    ELSE emit(st, "notice", <<chan, msgid, msg>>)

noticeDefault(st, chan, msgid, msg) ==
    IF loginFailureReason(msg) # Null
    THEN wsClose([st EXCEPT !.wasCloseCalled = FALSE, !.reconnect = FALSE,
                            !.reason = loginFailureReason(msg)])
    ELSE emit(st, "notice", <<chan, msgid, msg>>)

\* str.split(sep), for a separator of any length
RECURSIVE splitAt(_, _)
splitAt(str, sep) ==
    LET at == {i \in 1..(Len(str) - Len(sep) + 1) : SubSeq(str, i, i + Len(sep) - 1) = sep}
        first == CHOOSE i \in at : \A j \in at : i <= j
    IN  IF at = {} THEN <<str>>
        ELSE <<SubSeq(str, 1, first - 1)>>
                 \o splitAt(SubSeq(str, first + Len(sep), Len(str)), sep)

\* case 'room_mods': the names behind ': ', in lower case, the empty ones dropped
roomMods(msg) ==
    LET listSplit == splitAt(IF msg = Null THEN "" ELSE msg, ": ")
        named(n) == n # ""
    IN  SelectSeq(splitAt(toLowerCase(IF Len(listSplit) > 1 THEN listSplit[2] ELSE ""), ", "),
                  named)

\* case 'NOTICE'
onNotice(st, chan, msgid, msg) ==
    LET noticeArr == <<chan, msgid, msg>>
    IN  IF msgid = "room_mods"
        THEN emits(st, <<"_promiseMods", "mods">>,
                   <<<<Null, roomMods(msg)>>, <<chan, roomMods(msg)>>>>)
        ELSE IF msgid = "no_mods"
        THEN emits(st, <<"_promiseMods", "mods">>, <<<<Null, <<>>>>, <<chan, <<>>>>>>)
        ELSE IF msgid # Null /\ FailureTopic(msgid) # Null
        THEN emits(st, <<"notice", FailureTopic(msgid)>>, <<noticeArr, <<msgid>>>>)
        ELSE IF msgid # Null /\ SuccessTopic(msgid) # Null
        THEN emits(st, <<"notice", SuccessTopic(msgid)>>, <<noticeArr, <<Null>>>>)
        ELSE IF msgid \in PermissionMsgids
        THEN emits(st, PermissionTopics, <<noticeArr, <<msgid, chan>>>>)
        ELSE IF msgid \in IgnoredMsgids THEN st
        ELSE IF msgid = "unrecognized_cmd" THEN emit(st, "notice", noticeArr)
        ELSE noticeDefault(st, chan, msgid, msg)

\* case 'ROOMSTATE' (the followers-only half has no command in the model)
roomstateSlow(s2, chan, m) ==
    IF m.subsOnly \/ m.slow = "absent" THEN s2
    ELSE emits(s2, <<"slow", "slowmode",
                     IF m.slow = "0" THEN "_promiseSlowoff" ELSE "_promiseSlow">>,
               IF m.slow = "0"
               THEN <<<<chan, "false", "0">>, <<chan, "false", "0">>, <<Null>>>>
               ELSE <<<<chan, "true", m.slow>>, <<chan, "true", m.slow>>, <<Null>>>>)

onRoomstate(st, chan, m) ==
    roomstateSlow(emit(IF channel(st.lastJoined) = chan
                       THEN emit(st, "_promiseJoin", <<Null, chan>>) ELSE st,
                       "roomstate", <<chan>>),
                  chan, m)

\* case 'USERSTATE', its start: a client that is a moderator of the room is
\* added to the room's moderators
userstateMod(st, chan, m) ==
    IF m.userType = "mod" THEN pushModerator(st, chan, st.username) ELSE st

\* case 'MODE' of the messages from jtv; -o filters the array and drops the result
modeMinusRemoves(st, chan, name) ==
    LET other(value) == value # name
    IN  emit([withRoster(st, chan) EXCEPT !.moderators[chan] = SelectSeq(@, other)],
             "unmod", <<chan, name>>)

modeMinus(st, chan, name) == emit(withRoster(st, chan), "unmod", <<chan, name>>)

onMode(st, chan, msg, name) ==
    IF msg = "+o" THEN emit(pushModerator(st, chan, name), "mod", <<chan, name>>)
    ELSE IF msg = "-o" THEN modeMinus(st, chan, name)
    ELSE st

\* case 'USERSTATE', the rest (emote-sets are not in the model)
onUserstate(st, chan) ==
    LET s1 == IF ~isJustinfan(st.username) /\ chan \notin st.userstate
              THEN emit([st EXCEPT !.userstate = @ \cup {chan}, !.lastJoined = chan,
                                   !.channels = Append(@, chan)],
                        "join", <<chan, utilsUsername(st.username), "true">>)
              ELSE st
    IN  [s1 EXCEPT !.userstate = @ \cup {chan}]

\* case 'JOIN'
onJoin(st, chan, nick) ==
    LET matchesUsername == st.username = nick
    IN  IF matchesUsername /\ isJustinfan(st.username)
        THEN emit([st EXCEPT !.lastJoined = chan, !.channels = Append(@, chan)],
                  "join", <<chan, nick, "true">>)
        ELSE IF ~matchesUsername THEN emit(st, "join", <<chan, nick, "false">>)
        ELSE st

\* case 'PART'
onPart(st, chan, nick) ==
    LET spliceFirst(seq) == IF IndexOf(seq, chan) = 0 THEN seq
                            ELSE SeqRemoveAt(seq, IndexOf(seq, chan))
        s1 == IF st.username = nick
              THEN emit([st EXCEPT !.userstate = @ \ {chan},
                                   !.channels = spliceFirst(@),
                                   !.optsChannels = spliceFirst(@)],
                        "_promisePart", <<Null>>)
              ELSE st
    IN  emit(s1, "part", <<chan, nick>>)

\* case 'RECONNECT'
onReconnect(st) == setTimeout(disconnect(st), "reconnectCmd", 0, st.reconnectTimer)

\* case 'PING': after the emit
sendPong(s1) == IF isConnected(s1) THEN send(s1, "PONG") ELSE s1

\* case 'PONG': after currentLatency is set
onPong(s1) ==
    clearTimeout(emits(s1, <<"pong", "_promisePing">>, <<<<s1.currentLatency>>>>),
                 s1.pingTimeout)

\* handleMessage(message)
handleMessage(st, m) ==
    LET chan == channel(IF Param(m, 1) = Null THEN "" ELSE Param(m, 1))
        msg == Param(m, 2)
    IN  IF m.prefix = Null
        THEN CASE m.command = "PING" -> sendPong(emit(st, "ping", <<>>))
               [] m.command = "PONG" ->
                    onPong([st EXCEPT !.currentLatency = st.now - st.latency])
               [] OTHER -> st
        ELSE IF m.prefix = "tmi.twitch.tv"
        THEN CASE m.command = "001" -> [st EXCEPT !.username = m.params[1]]
               [] m.command = "376" -> on376(st)
               [] m.command = "NOTICE" -> onNotice(st, chan, m.msgid, msg)
               [] m.command = "HOSTTARGET" ->
                    IF splitFirst(IF msg = Null THEN "" ELSE msg, " ") = "-"
                    THEN emits(st, <<"unhost", "_promiseUnhost">>, <<<<chan, "0">>, <<Null>>>>)
                    ELSE emit(st, "hosting", <<chan>>)
               [] m.command = "CLEARCHAT" ->
                    IF Len(m.params) > 1 THEN emit(st, "ban", <<chan, msg>>)
                    ELSE emits(st, <<"clearchat", "_promiseClear">>, <<<<chan>>, <<Null>>>>)
               [] m.command = "RECONNECT" -> onReconnect(st)
               [] m.command = "USERSTATE" -> onUserstate(userstateMod(st, chan, m), chan)
               [] m.command = "ROOMSTATE" -> onRoomstate(st, chan, m)
               [] OTHER -> st
        ELSE IF m.prefix = "jtv"
        THEN CASE m.command = "MODE" -> onMode(st, chan, msg, Param(m, 3))
               [] OTHER -> st
        ELSE CASE m.command = "JOIN" -> onJoin(st, chan, nickOf(m.prefix))
               [] m.command = "PART" -> onPart(st, chan, nickOf(m.prefix))
               [] OTHER -> st

\* ---------------------------------------------------------- the actions
\* the configuration of a client built without opts.connection and
\* opts.options, but for maxReconnectAttempts
DefaultOptions ==
    [reconnectInterval |-> ReconnectInterval,
     maxReconnectInterval |-> MaxReconnectInterval,
     reconnectDecay |-> <<DecayNum, DecayDen>>,
     maxReconnectAttempts |-> MaxReconnectAttempts,
     timeout |-> PingTimeoutMs,
     joinInterval |-> JoinInterval]

\* the client as its constructor leaves it, for the identity u, the
\* configuration o and the configured channels chans, whose names it formats
Configured(u, o, chans) ==
    [ws |-> 0, socks |-> <<>>, sent |-> <<>>, wasCloseCalled |-> FALSE,
     reconnect |-> TRUE, reconnecting |-> FALSE, reconnections |-> 0,
     reconnectTimer |-> o.reconnectInterval, reason |-> "", username |-> "",
     optsUsername |-> u, channels |-> <<>>, optsChannels |-> mapChannel(chans),
     options |-> o,
     userstate |-> {}, moderators |-> NoModerators,
     lastJoined |-> "", currentLatency |-> 0, latency |-> 0, pingLoop |-> 0,
     pingTimeout |-> 0, events |-> [t \in Topics \cup UserTopics |-> <<>>], futures |-> <<>>,
     timers |-> <<>>, timerSeq |-> 0, emitted |-> <<>>, now |-> 0, heard |-> {}]

Fresh(u) == Configured(u, DefaultOptions, <<>>)

\* the identities of the model: none, a username with a token (Bob, Amy),
\* and a username without a password: an ordinary one, an anonymous one, and
\* one that only begins like an anonymous one
Identities == {Null, "Bob", "Amy", "Eve", "JustinFan42", "justinfan4u"}

\* _onMessage for one line read from socket n
receives(st, n, m) ==
    [handleMessage(st, m) EXCEPT
        !.socks[n].got376 = @ \/ (m.prefix = "tmi.twitch.tv" /\ m.command = "376")]

\* the transport opens socket n: readyState becomes OPEN and onopen runs
socketOpens(st, n) == onOpen([st EXCEPT !.socks[n].readyState = OPEN])

\* the prefix of a line the server relays from a user
UserPrefix(nick) == nick \o "!" \o nick \o "@" \o nick \o ".tmi.twitch.tv"

\* the client after connect(), the socket's open, 001 and 376 of a server
\* that assigns the name the client asked for
welcomed(s1) ==
    receives(receives(s1, 1, Message("tmi.twitch.tv", "001", <<s1.username>>, Null)),
             1, Message("tmi.twitch.tv", "376", <<s1.username>>, Null))

Connected(u) == [welcomed(socketOpens(connect(Fresh(u)), 1)) EXCEPT !.emitted = <<>>]

Init == \E u \in Identities : Starts(Fresh(u))

InitBob == Starts(Fresh("Bob"))

InitConnected == \E u \in Identities : Starts(Connected(u))

InitLoggedIn == Starts(Connected("Bob"))

\* a user call of one of the chat commands
CommandCalls ==
    {<<"ban", <<ch, "BadUser", "reason">>>> : ch \in CmdChans}
        \cup {<<"clear", <<"#A">>>>, <<"color", <<"#c0ffee">>>>, <<"slow", <<"#A", "30">>>>,
              <<"part", <<"#A">>>>}

UserCommand ==
    \E call \in CommandCalls :
        /\ Len(futures) < MaxFutures
        /\ Becomes(command(Cur, call[1], call[2], TRUE))

\* a command called while the client may not be connected
EarlyCalls == {<<"ban", <<"#A", "BadUser", "reason">>>>}

UserCommandEarly ==
    \E call \in EarlyCalls :
        /\ Len(futures) < MaxFutures
        /\ Becomes(command(Cur, call[1], call[2], TRUE))

\* the channel lists join() is called with: up to MaxJoin raw names, "a" first
JoinLists == {l \in UNION {[1..n -> RawChans] : n \in 1..MaxJoin} : l[1] = "a"}

\* join(channels) with an array, or join(channel) with one string
UserJoin ==
    \E chans \in JoinLists, isArray \in BOOLEAN :
        /\ Len(futures) < MaxFutures
        /\ isArray \/ Len(chans) = 1
        /\ Becomes(command(Cur, "join", chans, isArray))

UserConnect ==
    /\ Len(futures) < MaxFutures
    /\ Len(socks) < MaxSockets
    /\ Becomes(connect(Cur))

UserDisconnect ==
    /\ Len(futures) < MaxFutures
    /\ Becomes(disconnect(Cur))

\* the transport's open, error and close events of socket n
SocketOpen ==
    \E n \in DOMAIN socks :
        /\ socks[n].readyState = CONNECTING
        /\ Becomes(socketOpens(Cur, n))

\* an error is followed by the socket's close
SocketError ==
    \E n \in DOMAIN socks :
        /\ socks[n].readyState \in {CONNECTING, OPEN}
        /\ Becomes(onError([Cur EXCEPT !.socks[n].readyState = CLOSING]))

SocketCloses(n) ==
    /\ socks[n].readyState \in {OPEN, CLOSING}
    /\ Becomes(onClose([Cur EXCEPT !.socks[n].readyState = CLOSED]))

SocketClose == \E n \in DOMAIN socks : SocketCloses(n)

\* one line arrives on socket n, whose server has seen NICK, and is handled
Receive(n, m) ==
    /\ n \in DOMAIN socks
    /\ socks[n].readyState = OPEN
    /\ socks[n].nick
    /\ Becomes(receives(Cur, n, m))

\* a timer whose time has come runs; an interval stays, set one period later
runTimer(st, i) ==
    LET t == st.timers[i]
        s1 == IF t.kind = "pingLoop"
              THEN [st EXCEPT !.timers[i].due = @ + PingInterval]
              ELSE [st EXCEPT !.timers = SeqRemoveAt(@, i)]
    IN  CASE t.kind = "promiseDelay" -> reject(s1, t.f, "No response from Twitch.")
          [] t.kind = "joinDelay" -> joinTimeout(s1, t.f)
          [] t.kind = "joinQueue" -> queueNext(s1, t.chans)
          [] t.kind = "pingLoop" -> pingLoopTick(s1)
          [] t.kind = "pingTimeout" -> pingTimeoutFired(s1)
          [] t.kind = "reconnect" -> connect([s1 EXCEPT !.reconnecting = FALSE])
          [] t.kind = "reconnectCmd" -> connect(s1)
          [] t.kind = "sendRest" -> sendRest(s1, t.chans[1], t.chans[2], t.f)

FireTimer ==
    \E i \in DOMAIN timers :
        /\ timers[i].due <= now
        /\ timers[i].kind \in {"reconnect", "reconnectCmd"} => Len(socks) < MaxSockets
        /\ Becomes(runTimer(Cur, i))

\* time passes, once every timer that is due has run; the client reads the
\* clock through its timers only, so time is let pass while one is pending
Tick ==
    /\ now < MaxTicks * TickMs
    /\ timers # <<>>
    /\ \A i \in DOMAIN timers : timers[i].due > now
    /\ now' = now + TickMs
    /\ emitted' = <<>>
    /\ UNCHANGED <<ws, socks, sent, wasCloseCalled, reconnect, reconnecting,
                   reconnections, reconnectTimer, reason, username, optsUsername,
                   channels, optsChannels, options, userstate, moderators,
                   lastJoined, heard,
                   currentLatency, latency, pingLoop, pingTimeout, events, futures,
                   timers, timerSeq, arg, ret>>

\* ------------------------------------------------- the server's lines
Notice(chan, msgid, text) == Message("tmi.twitch.tv", "NOTICE", <<chan, text>>, msgid)

\* the msg-ids of the correlation lines the model's server sends
CommandMsgids ==
    {"ban_success", "already_banned", "usage_clear", "color_changed", "usage_color",
     "usage_slow_on", "no_permission"}

\* the lines that answer commands: NOTICE, CLEARCHAT without a target, ROOMSTATE
\* with a slow tag, and the PART of the client itself
CmdLines ==
    {Notice(c, id, "baduser") : c \in Chans, id \in CommandMsgids}
        \cup {Message("tmi.twitch.tv", "CLEARCHAT", <<c>>, Null) : c \in Chans}
        \cup {[Message("tmi.twitch.tv", "ROOMSTATE", <<c>>, Null) EXCEPT !.slow = "30"] :
                 c \in Chans}
        \cup {Message(UserPrefix(username), "PART", <<c>>, Null) : c \in Chans}

\* the lines that answer the JOIN of a logged-in client: USERSTATE, ROOMSTATE,
\* or a NOTICE that refuses the channel
JoinLines ==
    {Message("tmi.twitch.tv", "USERSTATE", <<c>>, Null) : c \in Chans}
        \cup {Message("tmi.twitch.tv", "ROOMSTATE", <<c>>, Null) : c \in Chans}
        \cup {Notice(c, "msg_channel_suspended", "This channel has been suspended.") :
                 c \in Chans}

\* texts of NOTICE lines without msg-id: login failures, and one that is none
NoticeTexts == {"Login authentication failed", "Invalid NICK", "Welcome"}

\* the lines of the handshake and of the connection's life on socket n; the
\* server ends its welcome with 376 once on a connection
ConnLines(n) ==
    {Message("tmi.twitch.tv", "001", <<username>>, Null)}
        \cup (IF socks[n].got376 THEN {}
              ELSE {Message("tmi.twitch.tv", "376", <<username>>, Null)})
        \cup {Notice("*", Null, text) : text \in NoticeTexts}

ReceiveCmd == \E n \in DOMAIN socks, m \in CmdLines : Receive(n, m)

ReceiveJoin == \E n \in DOMAIN socks, m \in JoinLines : Receive(n, m)

ReceiveConn == \E n \in DOMAIN socks : \E m \in ConnLines(n) : Receive(n, m)

\* ------------------------------------------------- the specifications
\* a connected client, its commands and their answers
NextCmd == UserCommand \/ ReceiveCmd \/ FireTimer \/ Tick

\* the user registers the listener on 'notice'
UserOn ==
    /\ events["notice"] = <<>>
    /\ Becomes(on(Cur, "notice", UserListener))

\* the commands and their answers of a client whose user listens to 'notice'
NextListen == UserOn \/ UserCommand \/ ReceiveCmd \/ FireTimer \/ Tick

SpecCmd == InitLoggedIn /\ [][NextCmd]_vars

SpecListen == InitLoggedIn /\ [][NextListen]_vars

\* a connected client and its joins
NextJoin == UserJoin \/ ReceiveJoin \/ FireTimer \/ Tick

SpecJoin == InitLoggedIn /\ [][NextJoin]_vars

\* the connection from the constructor on: connect, the transport's events,
\* the handshake, reconnects, and a command called at any time
NextConn ==
    \/ UserConnect
    \/ UserCommandEarly
    \/ SocketOpen
    \/ SocketError
    \/ SocketClose
    \/ ReceiveConn
    \/ FireTimer
    \/ Tick

SpecConn == InitBob /\ [][NextConn]_vars

\* the handshake of every identity: connect, the transport's events and the
\* timers
NextLogon ==
    \/ UserConnect
    \/ SocketOpen
    \/ SocketError
    \/ SocketClose
    \/ FireTimer
    \/ Tick

SpecLogon == Init /\ [][NextLogon]_vars

\* ------------------------------------------- the functions on their own
\* the strings of at most n characters of the set chars
RECURSIVE StringsOver(_, _)
StringsOver(chars, n) ==
    IF n = 0 THEN {""}
    ELSE LET shorter == StringsOver(chars, n - 1)
         IN  shorter \cup {c \o str : c \in chars, str \in shorter}

\* the characters of the texts to escape: those escapeIRC replaces, and
\* ordinary ones, among them the letters unescapeIRC reads behind a backslash
TextChars == {" ", LF, CR, ";", Backslash, "s", "n", "a"}

MaxText == 3

Texts == StringsOver(TextChars, MaxText)

InitEscape == \E text \in Texts : StartsWith(Fresh("Bob"), text)

\* escapeIRC(arg), and unescapeIRC of what it returned
EscapeCall == ret = <<>> /\ Returns(escapeIRC(arg))

UnescapeCall == Len(ret) = 1 /\ Returns(unescapeIRC(ret[1]))

NextEscape == EscapeCall \/ UnescapeCall

SpecEscape == InitEscape /\ [][NextEscape]_vars

\* the lines to parse: a tag block, a prefix, a command and parameters, each
\* present or not, with one space, several or none between them
TagBlocks ==
    {"", "@", "@a", "@a=", "@a=b", "@a=b=c", "@a;b=c", "@a=b;a=c", "@=b", "@a;;b",
     "@__proto__", "@__proto__=b;a"}

Gaps == {"", " ", "  "}

Prefixes == {"", ":", ":p"}

Commands == {"", "PING", "@x"}

ParamBlocks == {"", "x", "x y", ":t s", "x  :t :s "}

Lines ==
    {t \o g1 \o p \o g2 \o c \o g3 \o r :
        t \in TagBlocks, g1 \in Gaps, p \in Prefixes, g2 \in Gaps \ {""}, c \in Commands,
        g3 \in Gaps \ {"  "}, r \in ParamBlocks}

InitParse == \E line \in Lines : StartsWith(Fresh("Bob"), line)

\* parser.msg(arg)
ParseCall == ret = <<>> /\ Returns(parserMsg(arg))

SpecParse == InitParse /\ [][ParseCall]_vars

\* the names to format: letters of either case, '#' at any place, a digit
NameChars == {"#", "A", "a", "Z", "b", "_", "1"}

MaxName == 3

Names == StringsOver(NameChars, MaxName)

InitChannel == \E name \in Names : StartsWith(Fresh("Bob"), name)

\* utils.channel(arg), and utils.channel of what it returned
ChannelCall == ret = <<>> /\ Returns(channel(arg))

ChannelAgain == Len(ret) = 1 /\ Returns(channel(ret[1]))

NextChannel == ChannelCall \/ ChannelAgain

SpecChannel == InitChannel /\ [][NextChannel]_vars

\* ping()
UserPing ==
    /\ Len(futures) < MaxFutures
    /\ Becomes(command(Cur, "ping", <<>>, TRUE))

\* the transport reports an error on socket n while it is closing
SocketErrorsClosing(n) ==
    /\ socks[n].readyState = CLOSING
    /\ Becomes(onError(Cur))

SocketErrorClosing == \E n \in DOMAIN socks : SocketErrorsClosing(n)

\* the earliest time a pending timer is set for
NextDue(ts) == CHOOSE d \in {ts[i].due : i \in DOMAIN ts} : \A i \in DOMAIN ts : d <= ts[i].due

\* time passes until the next timer is due, up to a limit
AdvanceTo(limit) ==
    /\ timers # <<>>
    /\ NextDue(timers) > now
    /\ NextDue(timers) <= limit
    /\ now' = NextDue(timers)
    /\ emitted' = <<>>
    /\ UNCHANGED <<ws, socks, sent, wasCloseCalled, reconnect, reconnecting,
                   reconnections, reconnectTimer, reason, username, optsUsername,
                   channels, optsChannels, options, userstate, moderators,
                   lastJoined, heard,
                   currentLatency, latency, pingLoop, pingTimeout, events, futures,
                   timers, timerSeq, arg, ret>>

Advance == AdvanceTo(MaxClock)

AdvanceSoon == AdvanceTo(MaxSoon)

\* the answer to a PING, and the server's request to reconnect
PongLine == Message(Null, "PONG", <<>>, Null)

ReconnectLine == Message("tmi.twitch.tv", "RECONNECT", <<>>, Null)

ReceivePong == \E n \in DOMAIN socks : Receive(n, PongLine)

\* RECONNECT makes a promise of disconnect() and later one of connect()
ReceiveReconnect ==
    \E n \in DOMAIN socks :
        /\ Len(futures) < MaxFutures
        /\ Receive(n, ReconnectLine)

\* a connected client over a ping period: the ping loop, ping(), the PONG,
\* and the transport's events
NextPing ==
    \/ UserPing
    \/ ReceivePong
    \/ SocketOpen
    \/ SocketClose
    \/ FireTimer
    \/ Advance

SpecPing == InitLoggedIn /\ [][NextPing]_vars

\* a connected client that is disconnected: disconnect(), the server's
\* RECONNECT, a ping's timeout, and the transport's events
NextDisc ==
    \/ UserDisconnect
    \/ UserPing
    \/ ReceiveReconnect
    \/ SocketOpen
    \/ SocketErrorClosing
    \/ SocketClose
    \/ FireTimer
    \/ AdvanceSoon

SpecDisc == InitLoggedIn /\ [][NextDisc]_vars

\* the messages say() is called with: a short one, a command, an action, and
\* two of more than 500 characters, with spaces and without
RECURSIVE Repeat(_, _)
Repeat(str, n) ==
    IF n = 0 THEN ""
    ELSE IF n % 2 = 1 THEN str \o Repeat(str, n - 1)
    ELSE LET half == Repeat(str, n \div 2) IN half \o half

Messages ==
    {"hi", "/help", "/me waves", Repeat("lorem ipsum ", 50), Repeat("x", MaxLength + 1),
     "hi " \o Repeat("x", MaxLength + 100), " " \o Repeat("x", MaxLength + 1)}

UserSay ==
    \E msg \in Messages :
        /\ Len(futures) < MaxFutures
        /\ Becomes(say(Cur, "#A", msg))

\* a connected client that talks: say(), the commands, and the timers
NextSay == UserSay \/ UserCommand \/ FireTimer \/ Tick

SpecSay == InitLoggedIn /\ [][NextSay]_vars

\* the reconnect configurations of the model: reconnectInterval below, near
\* and above maxReconnectInterval, and a reconnectDecay of 1, 1.5 and 2
ReconnectIntervals == {ReconnectInterval, 20000, 40000}

ReconnectDecays == {<<1, 1>>, <<DecayNum, DecayDen>>, <<2, 1>>}

ReconnectOptions ==
    {[DefaultOptions EXCEPT !.reconnectInterval = i, !.reconnectDecay = d] :
        i \in ReconnectIntervals, d \in ReconnectDecays}

InitReconnect == \E o \in ReconnectOptions : Starts(Configured("Bob", o, <<>>))

\* the server's welcome on socket n
WelcomeLines(n) ==
    {Message("tmi.twitch.tv", "001", <<username>>, Null)}
        \cup (IF socks[n].got376 THEN {}
              ELSE {Message("tmi.twitch.tv", "376", <<username>>, Null)})

ReceiveWelcome == \E n \in DOMAIN socks : \E m \in WelcomeLines(n) : Receive(n, m)

\* connections and reconnections under each reconnect configuration
NextReconnect ==
    \/ UserConnect
    \/ SocketOpen
    \/ ReceiveWelcome
    \/ SocketError
    \/ SocketClose
    \/ FireTimer
    \/ Advance

SpecReconnect == InitReconnect /\ [][NextReconnect]_vars

\* the same for a client that is allowed one reconnection
InitOneAttempt ==
    \E o \in ReconnectOptions :
        Starts(Configured("Bob", [o EXCEPT !.maxReconnectAttempts = 1], <<>>))

SpecOneAttempt == InitOneAttempt /\ [][NextReconnect]_vars

\* the configurations of the join queue: the configured channels as the user
\* writes them, and a joinInterval below and above the floor
ConfiguredChannels == {<<"#a">>, <<"B", "a">>}

JoinIntervals == {100, JoinInterval}

JoinOptions == {[DefaultOptions EXCEPT !.joinInterval = i] : i \in JoinIntervals}

\* the client of such a configuration after its connect()
InitRejoin ==
    \E o \in JoinOptions, chans \in ConfiguredChannels :
        Starts(connect(Configured("Bob", o, chans)))

\* the server confirms a channel to the client
UserstateLines == {Message("tmi.twitch.tv", "USERSTATE", <<c>>, Null) : c \in Chans}

ReceiveUserstate == \E n \in DOMAIN socks, m \in UserstateLines : Receive(n, m)

\* the join queue of 376 over a connection and its reconnection
NextRejoin ==
    \/ SocketOpen
    \/ ReceiveWelcome
    \/ ReceiveUserstate
    \/ SocketClose
    \/ FireTimer
    \/ Advance

SpecRejoin == InitRejoin /\ [][NextRejoin]_vars

\* the lines of a server that answers a JOIN channel by channel: a channel's
\* ROOMSTATE follows its USERSTATE, the channels in any order
ScriptLines ==
    {m \in JoinLines :
        \/ m.command = "USERSTATE"
        \/ m.command = "ROOMSTATE" /\ <<"USERSTATE", channel(m.params[1])>> \in heard}

\* the client handles one line of the script, which the history notes
hears(st, m) == [st EXCEPT !.heard = @ \cup {<<m.command, channel(m.params[1])>>}]

ReceiveScript ==
    \E n \in DOMAIN socks, m \in ScriptLines :
        /\ \E f \in DOMAIN futures : futures[f].kind = "join"
        /\ socks[n].readyState = OPEN
        /\ socks[n].nick
        /\ Becomes(hears(receives(Cur, n, m), m))

\* the one join() the script answers
UserJoinOnce == (\A f \in DOMAIN futures : futures[f].kind # "join") /\ UserJoin

\* a connected client, one join, and the server's lines for its channels
NextScript == UserJoinOnce \/ ReceiveScript \/ FireTimer \/ Tick

SpecScript == InitLoggedIn /\ [][NextScript]_vars

\* the lines of a session: the USERSTATE of a channel, and the JOIN and PART
\* the server relays for the client itself and for another user
SessionLines ==
    UserstateLines
        \cup {Message(UserPrefix(nick), cmd, <<c>>, Null) :
                 nick \in {username, "eve"}, cmd \in {"JOIN", "PART"}, c \in Chans}

\* the length up to which the model lets this.channels grow
MaxChannels == 3

\* the client handles a line of the session, which the server sends once it
\* has welcomed the client; the history notes a USERSTATE
ReceiveSession ==
    \E n \in DOMAIN socks, m \in SessionLines :
        /\ socks[n].readyState = OPEN
        /\ socks[n].got376
        /\ Len(channels) < MaxChannels
        /\ Becomes(IF m.command = "USERSTATE" THEN hears(receives(Cur, n, m), m)
                   ELSE receives(Cur, n, m))

\* the server's welcome; the history starts again at the login
ReceiveLogin ==
    \E n \in DOMAIN socks : \E m \in WelcomeLines(n) :
        /\ socks[n].readyState = OPEN
        /\ socks[n].nick
        /\ Becomes([receives(Cur, n, m) EXCEPT
                       !.heard = IF m.command = "376" THEN {} ELSE @])

\* say() of a short text to a channel
UserSayHi ==
    \E c \in Chans :
        /\ Len(futures) < MaxFutures
        /\ Becomes(say(Cur, c, "hi"))

\* the client configured with the channels chans after its connect(), the
\* socket's open and the server's welcome
ConnectedWith(u, chans) ==
    [welcomed(socketOpens(connect(Configured(u, DefaultOptions, chans)), 1))
        EXCEPT !.emitted = <<>>]

\* an authenticated and an anonymous session, configured with one channel,
\* written once or twice
InitSession ==
    \E u \in {"Bob", Null}, chans \in {<<"a">>, <<"a", "#A">>} :
        Starts(ConnectedWith(u, chans))

\* a session: the lines about its channels, say(), closes and reconnections
NextSession ==
    \/ ReceiveSession
    \/ ReceiveLogin
    \/ UserSayHi
    \/ SocketOpen
    \/ SocketClose
    \/ FireTimer
    \/ AdvanceSoon

SpecSession == InitSession /\ [][NextSession]_vars

\* the lines about the moderators of a room: the client's USERSTATE as a
\* moderator, MODE +o and -o from jtv, and the answers to /mods, one of which
\* lists a name twice
ModeLine(c, sign, name) == Message("jtv", "MODE", <<c, sign, name>>, Null)

ModsTexts ==
    {"The moderators of this room are: Eve, bob", "The moderators of this room are: eve, eve"}

RosterLines ==
    {[Message("tmi.twitch.tv", "USERSTATE", <<c>>, Null) EXCEPT !.userType = "mod"] :
        c \in Chans}
        \cup {ModeLine(c, sign, name) : c \in Chans, sign \in {"+o", "-o"},
                                        name \in {"bob", "eve"}}
        \cup {Notice(c, "room_mods", text) : c \in Chans, text \in ModsTexts}
        \cup {Notice(c, "no_mods", "There are no moderators of this room.") : c \in Chans}

ReceiveRoster == \E n \in DOMAIN socks, m \in RosterLines : Receive(n, m)

\* mods(channel)
UserMods ==
    \E c \in CmdChans :
        /\ Len(futures) < MaxFutures
        /\ Becomes(command(Cur, "mods", <<c>>, TRUE))

\* the moderators of the rooms over a connection, up to its end
NextRoster == ReceiveRoster \/ UserMods \/ SocketError \/ SocketClose

SpecRoster == InitLoggedIn /\ [][NextRoster]_vars

\* ------------------------------------------------------- the properties
\* the normalized form of the raw channel names of the model, written out
Normal(raw) ==
    CASE raw = "a" -> "#a"
      [] raw = "#A" -> "#a"
      [] raw = "B" -> "#b"

Pending(f) == futures[f].status = "pending"

\* the pending promises of one command
PendingOf(kind) == {f \in DOMAIN futures : futures[f].kind = kind /\ Pending(f)}

\* the commands of the model that name a channel
ChannelCommands == {"ban", "clear", "slow", "part"}

\* ---- SpecCmd
\* C1: every correlated command issued on a connected client settles: once
\* the promise delay has passed since the call and the command's topic has
\* not fired, its promise is rejected with 'No response from Twitch.'
C1_SettlesByDeadline ==
    \A f \in DOMAIN futures :
        (/\ futures[f].kind \in {"ban", "clear", "color", "slow", "part"}
         /\ ~futures[f].fired
         /\ now > futures[f].at + MinPromiseDelay)
            => /\ futures[f].status = "rejected"
               /\ futures[f].err = "No response from Twitch."

\* the line that completes a command for channel c, the msg-ids that fail it,
\* and the value its promise resolves to, from the mapping table
SuccessLine(kind, c) ==
    CASE kind = "ban" -> Notice(c, "ban_success", "baduser")
      [] kind = "clear" -> Message("tmi.twitch.tv", "CLEARCHAT", <<c>>, Null)
      [] kind = "color" -> Notice(c, "color_changed", "baduser")
      [] kind = "slow" ->
            [Message("tmi.twitch.tv", "ROOMSTATE", <<c>>, Null) EXCEPT !.slow = "30"]

FailureIds(kind) ==
    CASE kind = "ban" -> {"already_banned"}
      [] kind = "clear" -> {"usage_clear"}
      [] kind = "color" -> {"usage_color"}
      [] kind = "slow" -> {"usage_slow_on"}

ExpectedValue(fut) ==
    CASE fut.kind = "ban" -> <<Normal(fut.args[1]), "baduser", "reason">>
      [] fut.kind = "clear" -> <<Normal(fut.args[1])>>
      [] fut.kind = "color" -> <<"#c0ffee">>
      [] fut.kind = "slow" -> <<Normal(fut.args[1]), "30">>

\* C2: with exactly one ban outstanding on channel c, the NOTICE ban_success
\* for c resolves it to [c, username, reason] and a NOTICE with a failure
\* msg-id rejects it with that msg-id; the same holds of clear, color and
\* slow with the success line and the failure msg-ids of the mapping table
C2_OneOutstanding ==
    [][\A kind \in {"ban", "clear", "color", "slow"}, n \in DOMAIN socks, c \in Chans :
         \A f \in DOMAIN futures :
            (/\ PendingOf(kind) = {f}
             /\ kind = "color" \/ Normal(futures[f].args[1]) = c)
                => /\ Receive(n, SuccessLine(kind, c))
                        => /\ futures'[f].status = "resolved"
                           /\ futures'[f].value = ExpectedValue(futures[f])
                   /\ \A id \in FailureIds(kind) :
                        Receive(n, Notice(c, id, "baduser"))
                            => /\ futures'[f].status = "rejected"
                               /\ futures'[f].err = id]_vars

\* a ban on #a was resolved by its ban_success, and another command was
\* rejected by its failure msg-id
C2_Witness ==
    /\ \E f \in DOMAIN futures :
            /\ futures[f].kind = "ban"
            /\ futures[f].status = "resolved"
            /\ futures[f].value = <<"#a", "baduser", "reason">>
    /\ \E f \in DOMAIN futures :
            /\ futures[f].status = "rejected"
            /\ futures[f].err \in {"already_banned", "usage_clear", "usage_color",
                                   "usage_slow_on"}

\* C4: a pending command issued for channel X is neither fulfilled nor
\* rejected by a NOTICE, ROOMSTATE or CLEARCHAT for another channel Y
C4_OtherChannel ==
    [][\A n \in DOMAIN socks, m \in CmdLines, f \in DOMAIN futures :
         (/\ Pending(f)
          /\ futures[f].kind \in {"ban", "clear", "slow"}
          /\ m.command \in {"NOTICE", "ROOMSTATE", "CLEARCHAT"}
          /\ m.params[1] # Normal(futures[f].args[1])
          /\ Receive(n, m))
            => futures'[f].status = "pending"]_vars

\* C5: a permission-class NOTICE for channel X rejects every command
\* outstanding for X, all of them when several are pending, with its msg-id
C5_PermissionRejectsAll ==
    [][\A n \in DOMAIN socks, c \in Chans :
         Receive(n, Notice(c, "no_permission", "baduser"))
            => \A f \in DOMAIN futures :
                  (/\ Pending(f)
                   /\ futures[f].kind \in ChannelCommands
                   /\ Normal(futures[f].args[1]) = c)
                      => /\ futures'[f].status = "rejected"
                         /\ futures'[f].err = "no_permission"]_vars

\* ---- SpecJoin
\* the requested names of a join, normalized: as a set, as a sequence, and
\* joined by commas
NormalNames(args) == {Normal(args[i]) : i \in DOMAIN args}

RECURSIVE NormalSeq(_)
NormalSeq(args) ==
    IF Len(args) = 0 THEN <<>> ELSE <<Normal(args[1])>> \o NormalSeq(Tail(args))

RECURSIVE CommaNames(_)
CommaNames(args) ==
    IF Len(args) = 1 THEN Normal(args[1])
    ELSE Normal(args[1]) \o "," \o CommaNames(Tail(args))

Joins == {f \in DOMAIN futures : futures[f].kind = "join"}

\* the timeout of join f is still to come
JoinTimerSet(f) == \E i \in DOMAIN timers : timers[i].kind = "joinDelay" /\ timers[i].f = f

C7_FailureRejectsJoin ==
    [][\A n \in DOMAIN socks, c \in Chans :
         Receive(n, Notice(c, "msg_channel_suspended", "This channel has been suspended."))
            => /\ \A f \in Joins :
                    (Pending(f) /\ JoinTimerSet(f) /\ c \in NormalNames(futures[f].args))
                        => /\ futures'[f].status = "rejected"
                           /\ futures'[f].err = "msg_channel_suspended"
               /\ channels' = channels
               /\ userstate' = userstate]_vars

\* C8: a join sent to the server whose timeout has run is no longer pending:
\* without all its confirmations it was rejected with the message that
\* names the channels not confirmed, and its listener is off the bus
C8_JoinTimesOut ==
    \A f \in Joins :
        (futures[f].delay > 0 /\ ~JoinTimerSet(f))
            => /\ futures[f].status # "pending"
               /\ \A i \in DOMAIN events["_promiseJoin"] : events["_promiseJoin"][i].f # f

\* ---- SpecConn
\* C3 as stated: a command called with no socket, a socket not open, or an
\* open socket whose 376 has not been processed is rejected with 'Not
\* connected to server.' and hands no frame to the transport
C3_BeforeWelcome ==
    [][(/\ Len(futures') = Len(futures) + 1
        /\ futures'[Len(futures')].kind = "ban"
        /\ ws = 0 \/ socks[ws].readyState # OPEN \/ ~socks[ws].got376)
            => /\ futures'[Len(futures')].status = "rejected"
               /\ futures'[Len(futures')].err = "Not connected to server."
               /\ sent' = sent]_vars

\* C3: a command called with no socket, or with a socket that is not open,
\* is rejected with 'Not connected to server.' and hands no frame to the
\* transport; called on an open socket, before 376 or after, it is sent
C3_NotConnected ==
    [][(Len(futures') = Len(futures) + 1 /\ futures'[Len(futures')].kind = "ban")
            => IF ws = 0 \/ socks[ws].readyState # OPEN
               THEN /\ futures'[Len(futures')].status = "rejected"
                    /\ futures'[Len(futures')].err = "Not connected to server."
                    /\ sent' = sent
               ELSE /\ futures'[Len(futures')].status = "pending"
                    /\ sent' = Append(sent, [sock |-> ws,
                                             frame |-> "PRIVMSG #a :/ban baduser reason"])]_vars

\* a ban called while the socket was still connecting was rejected
C3_Witness ==
    /\ ws # 0
    /\ socks[ws].readyState = CONNECTING
    /\ futures # <<>>
    /\ futures[Len(futures)].kind = "ban"
    /\ futures[Len(futures)].status = "rejected"
    /\ futures[Len(futures)].err = "Not connected to server."
    /\ \A i \in DOMAIN sent : sent[i].frame # "PRIVMSG #a :/ban baduser reason"

\* C9: the promise of connect() is resolved only once 376 was processed on
\* the socket that call opened
C9_ResolvedBy376 ==
    \A f \in DOMAIN futures :
        (futures[f].kind = "connect" /\ futures[f].status = "resolved")
            => socks[futures[f].sock].got376

\* the texts of the model's login-failure notices, and the reason the client
\* records for each
LoginFailureTexts == {"Login authentication failed", "Invalid NICK"}

ReasonOf(text) == IF text = "Invalid NICK" THEN "Invalid NICK." ELSE text

\* the transport's close of a socket after a login failure, the client's own
\* close() not in progress
LoginFailureClose(n) ==
    /\ ~reconnect
    /\ ~wasCloseCalled
    /\ reason \in {ReasonOf(text) : text \in LoginFailureTexts}
    /\ SocketCloses(n)

ReconnectTimers(ts) == {ts[i].id : i \in {j \in DOMAIN ts : ts[j].kind = "reconnect"}}

DisconnectedOpen(n) ==
    \E f \in DOMAIN futures :
        /\ futures[f].kind = "disconnect"
        /\ futures[f].sock = n
        /\ futures[f].connected

\* the transport reports the end of socket n, through close or through error
SocketEnds(n) == SocketCloses(n) \/ SocketErrorsClosing(n)

\* C11: once disconnect() has been called on an open socket, the report of
\* that socket's end (close or error callback) schedules no automatic
\* reconnect: no reconnect timer is set and 'reconnect' is not emitted,
\* whatever timers and lines were handled in between
C11_NoReconnectAfterDisconnect ==
    [][\A n \in DOMAIN socks :
         DisconnectedOpen(n) /\ SocketEnds(n)
            => /\ ReconnectTimers(timers') \subseteq ReconnectTimers(timers)
               /\ "reconnect" \notin SeqToSet(emitted')]_vars

\* the pending promises of the disconnect() calls made on socket n
DisconnectsOf(n) ==
    {f \in PendingOf("disconnect") : futures[f].sock = n}

\* C12: a disconnect() accepted on a socket is resolved with [server, port]
\* when the close of that socket is handled, whatever timers and lines were
\* handled between the call and the close (here: for the one disconnect()
\* outstanding)
C12_ResolvesAtClose ==
    [][\A n \in DOMAIN socks :
         SocketCloses(n)
            => \A f \in DisconnectsOf(n) :
                  PendingOf("disconnect") = {f}
                      => /\ futures'[f].status = "resolved"
                         /\ futures'[f].value = <<Server, Port>>]_vars

\* the timers of a kind whose time has come, and the ids of a timer list
Due(kind) == {i \in DOMAIN timers : timers[i].kind = kind /\ timers[i].due <= now}

TimerIds(ts) == {ts[i].id : i \in DOMAIN ts}

\* timer i of the list has run in this step: it is gone from the list
Ran(i) == FireTimer /\ timers[i].id \notin TimerIds(timers')

\* the interval timer i has run in this step: it is set one period later
RanInterval(i) ==
    \E j \in DOMAIN timers' :
        timers'[j].id = timers[i].id /\ timers'[j].due = timers[i].due + PingInterval

C14_RejectsAfterTimeout ==
    \A f \in DOMAIN futures :
        (/\ futures[f].kind = "ping"
         /\ futures[f].status = "rejected"
         /\ futures[f].err # "Not connected to server.")
            => now >= futures[f].at + options.timeout

\* C15: after RECONNECT (disconnect() on the open socket n, no automatic
\* reconnect engaged, and the timer's connect() having opened a newer socket),
\* the close of the old socket n leaves the newer socket the client's current
\* one and leaves its connect() pending
C15_NewSocketSurvives ==
    [][\A n \in DOMAIN socks :
         (/\ SocketCloses(n)
          /\ DisconnectedOpen(n)
          /\ reconnections = 0
          /\ ws # 0 /\ ws # n)
            => /\ ws' = ws
               /\ \A f \in PendingOf("connect") :
                    futures[f].sock = ws => futures'[f].status = "pending"]_vars

\* --------------------------------------------------- the reconnect policy
\* the line that ends the server's welcome
Is376(n) == Receive(n, Message("tmi.twitch.tv", "376", <<username>>, Null))

Decayed(t) ==
    LET product == (t * options.reconnectDecay[1]) \div options.reconnectDecay[2]
    IN  IF product < options.maxReconnectInterval THEN product
        ELSE options.maxReconnectInterval

\* a step that calls connect(): a socket is created
Connects == Len(socks') = Len(socks) + 1

\* the statement of C17 about one step: connect() multiplies the timer by
\* reconnectDecay up to the cap and never lowers it, 376 sets it to
\* reconnectInterval, and nothing else changes it
TimerStep ==
    /\ Connects => /\ reconnectTimer' = Decayed(reconnectTimer)
                   /\ reconnectTimer' >= reconnectTimer
    /\ (\E n \in DOMAIN socks : Is376(n))
          => reconnectTimer' = options.reconnectInterval
    /\ reconnectTimer' # reconnectTimer
          => Connects \/ \E n \in DOMAIN socks : Is376(n)

\* the configurations C17 is about, and those of them it holds for
DecayAtLeastOne == options.reconnectDecay[1] >= options.reconnectDecay[2]

IntervalWithinMax == options.reconnectInterval <= options.maxReconnectInterval

FirstAt(seq, x) ==
    CHOOSE i \in DOMAIN seq : seq[i] = x /\ \A j \in 1..(i - 1) : seq[j] # x

\* L lists every member of seq once; L lists them in the order of their
\* first places in seq
IsUnionOf(L, seq) ==
    SeqToSet(L) = SeqToSet(seq) /\ Len(L) = Cardinality(SeqToSet(seq))

InOrderOf(L, seq) ==
    \A i, j \in DOMAIN L : i < j => FirstAt(seq, L[i]) < FirstAt(seq, L[j])

\* the lists of members of seq, up to its length
ListsOf(seq) == UNION {[1..k -> SeqToSet(seq)] : k \in 1..Len(seq)}

\* the timers of a kind set in this step
NewTimers(kind) ==
    {j \in DOMAIN timers' :
        timers'[j].kind = kind /\ timers'[j].id \notin TimerIds(timers)}

\* join(c) is called in this step on the connected client: its promise is
\* made and its frame is handed to the socket
JoinCalled(c) ==
    /\ Len(futures') = Len(futures) + 1
    /\ futures'[Len(futures')].kind = "join"
    /\ futures'[Len(futures')].args = <<c>>
    /\ futures'[Len(futures')].at = now
    /\ sent' = Append(sent, [sock |-> ws, frame |-> "JOIN " \o c])

\* the queue goes on with the items `rest` after this step
QueueHolds(rest) ==
    IF rest = <<>> THEN NewTimers("joinQueue") = {}
    ELSE \E j \in DOMAIN timers' :
            /\ NewTimers("joinQueue") = {j}
            /\ timers'[j].chans = rest

Open == ws # 0 /\ socks[ws].readyState = OPEN

\* C18: the 376 of the client's socket queues the duplicate-free union of
\* opts.channels and this.channels and empties this.channels; the queue hands
\* the first channel to join() at once and each further one when its timer
\* runs, once, if the client is connected then; this.channels is kept by the
\* close and error callbacks and shrinks at 376 only
C18_RejoinsUnion ==
    [][/\ \A n \in DOMAIN socks :
            (Is376(n) /\ n = ws)
                => /\ channels' = <<>>
                   /\ optsChannels \o channels = <<>>
                        => futures' = futures /\ QueueHolds(<<>>)
                   /\ optsChannels \o channels # <<>>
                        => \E L \in ListsOf(optsChannels \o channels) :
                              /\ IsUnionOf(L, optsChannels \o channels)
                              /\ JoinCalled(L[1])
                              /\ QueueHolds(Tail(L))
       /\ \A i \in Due("joinQueue") :
            Ran(i)
                => /\ IF Open THEN JoinCalled(timers[i].chans[1])
                      ELSE futures' = futures /\ sent' = sent
                   /\ QueueHolds(Tail(timers[i].chans))
       /\ \A n \in DOMAIN socks : SocketCloses(n) => channels' = channels
       /\ Len(channels') < Len(channels) => \E n \in DOMAIN socks : Is376(n)]_vars

\* the client configured with #a was confirmed #a and #b, lost its socket
\* and reconnected: the queue of the second 376 joined #a and #b, each once
C18_Witness ==
    /\ optsChannels = <<"#a">>
    /\ channels = <<>>
    /\ Len(socks) = 2
    /\ socks[2].got376
    /\ Cardinality({k \in DOMAIN sent : sent[k] = [sock |-> 2, frame |-> "JOIN #a"]}) = 1
    /\ Cardinality({k \in DOMAIN sent : sent[k] = [sock |-> 2, frame |-> "JOIN #b"]}) = 1
    /\ \A i \in DOMAIN timers : timers[i].kind # "joinQueue"

\* the delay of the join queue: options.joinInterval, 300 ms at least
QueueDelay ==
    IF options.joinInterval >= MinJoinInterval THEN options.joinInterval
    ELSE MinJoinInterval

\* the queue goes on with the items `rest`, one delay from now
QueueWaits(rest) ==
    rest # <<>>
        => \E j \in NewTimers("joinQueue") :
              timers'[j].chans = rest /\ timers'[j].due = now + QueueDelay

\* C19: the join queue runs its items in the order they were added (the
\* order of first occurrence in opts.channels followed by this.channels), the
\* first at 376 and each next one by a timer set, when its predecessor runs,
\* to max(joinInterval, 300) ms later, so that no item runs twice and two
\* consecutive ones are that far apart at least
C19_QueueOrder ==
    [][/\ \A n \in DOMAIN socks :
            (Is376(n) /\ n = ws /\ optsChannels \o channels # <<>>)
                => \E L \in ListsOf(optsChannels \o channels) :
                      /\ IsUnionOf(L, optsChannels \o channels)
                      /\ InOrderOf(L, optsChannels \o channels)
                      /\ JoinCalled(L[1])
                      /\ QueueWaits(Tail(L))
       /\ \A i \in Due("joinQueue") :
            Ran(i)
                => /\ now >= timers[i].due
                   /\ Open => JoinCalled(timers[i].chans[1])
                   /\ QueueWaits(Tail(timers[i].chans))
                   /\ Cardinality(NewTimers("joinQueue")) <= 1
       /\ \A j \in NewTimers("joinQueue") : timers'[j].due >= now + MinJoinInterval]_vars

\* with joinInterval 100 the queue joined #b at 376 and #a 300 ms later
C19_Witness ==
    /\ options.joinInterval < MinJoinInterval
    /\ optsChannels = <<"#b", "#a">>
    /\ \E f, g \in DOMAIN futures :
            /\ futures[f].kind = "join" /\ futures[f].args = <<"#b">>
            /\ futures[g].kind = "join" /\ futures[g].args = <<"#a">>
            /\ f < g
            /\ futures[g].at = futures[f].at + MinJoinInterval
            /\ now = futures[g].at

\* ------------------------------------------------------ the frames' order
\* the call of promise g handed a frame to the transport
HandedFrame(g) == futures[g].err # "Not connected to server."

\* C20: when a frame of a call is handed to the transport - here the
\* remainder of a long message, by its timer - no call made after that call
\* has had a frame handed to the transport yet
C20_FramesInCallOrder ==
    [][\A i \in Due("sendRest") :
         (Ran(i) /\ sent' # sent)
            => \A g \in DOMAIN futures : g > timers[i].f => ~HandedFrame(g)]_vars

\* ------------------------------------------------- the split of a long message
PrivmsgHead == "PRIVMSG #a :"

\* the payloads of the PRIVMSG frames from the i-th frame on, in the order
\* they were sent, one after the other
RECURSIVE PayloadsFrom(_, _)
PayloadsFrom(frames, i) ==
    IF i > Len(frames) THEN ""
    ELSE (IF startsWith(frames[i].frame, PrivmsgHead)
          THEN slice(frames[i].frame, Len(PrivmsgHead), Len(frames[i].frame))
          ELSE "")
         \o PayloadsFrom(frames, i + 1)

\* the remainder of the message of call f that a timer still holds
RestOf(ts, f) == {i \in DOMAIN ts : ts[i].kind = "sendRest" /\ ts[i].f = f}

Remainder(ts, f) ==
    IF RestOf(ts, f) = {} THEN "" ELSE ts[CHOOSE i \in RestOf(ts, f) : TRUE].chans[2]

\* the promise of the first call the user makes once logged in
FirstCall == Len(Connected("Bob").futures) + 1

\* the only call so far is a say() of a message longer than 500 characters,
\* which _sendMessage took
LongSayAlone ==
    /\ Len(futures) = FirstCall
    /\ futures[FirstCall].kind = "say"
    /\ Len(futures[FirstCall].args[2]) > MaxLength
    /\ futures[FirstCall].err = Null

\* no payload is longer than 500 characters
PayloadsFit ==
    \A i \in DOMAIN sent :
        startsWith(sent[i].frame, PrivmsgHead)
            => Len(sent[i].frame) - Len(PrivmsgHead) <= MaxLength

\* the payload p was cut off before the remainder r at the last space of the
\* first 500 characters, or after them when they hold no space
CutAtLastSpace(p, r) ==
    \/ Len(p) = MaxLength /\ lastIndexOf(p, " ") = -1
    \/ /\ Len(p) < MaxLength
       /\ slice(r, 0, 1) = " "
       /\ lastIndexOf(slice(r, 1, MaxLength - Len(p)), " ") = -1

SplitStep ==
    (LongSayAlone' /\ sent' # sent /\ Remainder(timers', FirstCall) # "")
        => CutAtLastSpace(PayloadsFrom(sent', Len(sent')), Remainder(timers', FirstCall))

\* the timer that holds a remainder of the call runs and leaves a shorter
\* remainder, or none
SplitAdvances ==
    \A i \in Due("sendRest") :
        (Ran(i) /\ timers[i].f = FirstCall /\ LongSayAlone)
            => Len(Remainder(timers', FirstCall)) < Len(timers[i].chans[2])

\* the message of the call is out whole: no remainder is left to a timer
Delivered ==
    /\ RestOf(timers, FirstCall) = {}
    /\ PayloadsFrom(sent, 1) = futures[FirstCall].args[2]

\* C21: a message longer than 500 characters sent with say() goes out in
\* payloads of at most 500 characters, each cut at the last space of the
\* first 500 characters (or after them when there is none), and the
\* payloads, in the order they were sent, make up the message: what is sent
\* and what a timer still holds is the message, each run of the timer leaves
\* less of it, and once none is left the payloads are the message
C21_SplitsWhole ==
    /\ [](LongSayAlone
            => /\ PayloadsFit
               /\ PayloadsFrom(sent, 1) \o Remainder(timers, FirstCall)
                      = futures[FirstCall].args[2]
               /\ RestOf(timers, FirstCall) = {} => Delivered)
    /\ [][SplitStep]_vars
    /\ [][SplitAdvances]_vars

\* ---------------------------------------------------------- the handshake
CapReq == "CAP REQ :twitch.tv/tags twitch.tv/commands twitch.tv/membership"

\* the PASS frame the handshake of the configured identity is to hold: the
\* token behind 'oauth:', SCHMOOPIIE for an anonymous name without a token,
\* none for another name without a token
PassFrames ==
    CASE optsUsername \in {"Bob", "Amy"} -> <<"PASS oauth:tok">>
      [] optsUsername \in {Null, "JustinFan42"} -> <<"PASS SCHMOOPIIE">>
      [] optsUsername \in {"Eve", "justinfan4u"} -> <<>>

NickFrame ==
    CASE optsUsername = Null -> "NICK justinfan1000"
      [] optsUsername = "Bob" -> "NICK bob"
      [] optsUsername = "Amy" -> "NICK amy"
      [] optsUsername = "Eve" -> "NICK eve"
      [] optsUsername = "JustinFan42" -> "NICK justinfan42"
      [] optsUsername = "justinfan4u" -> "NICK justinfan4u"

\* the socket the client holds opens in this step
Opens == ws # 0 /\ socks[ws].readyState = CONNECTING /\ socks'[ws].readyState = OPEN

\* the frames of socket n, in the order they were sent
FramesOf(n) ==
    LET ofSocket(x) == x.sock = n
    IN  SelectSeq(sent, ofSocket)

LoggedOn(u) == optsUsername = u /\ ws # 0 /\ socks[ws].readyState = OPEN /\ FramesOf(ws) # <<>>

C23_RoundTrip == Len(ret) = 2 => ret[2] = arg

\* ---------------------------------------------------------------- parser.msg
\* the words of a line: what stands between its spaces
Words(line) ==
    LET word(w) == w # ""
    IN  SelectSeq(split(line, " "), word)

\* the line begins with a tag block; the word after it, or the first word,
\* is a prefix
HasTagBlock == startsWith(arg, "@")

PrefixWord == IF HasTagBlock THEN 2 ELSE 1

HasPrefix == PrefixWord <= Len(Words(arg)) /\ startsWith(Words(arg)[PrefixWord], ":")

\* the place of the word that is the command, behind the tag block and the
\* prefix; there is none when the line has no space behind '@...', no space
\* behind ':...', or nothing but spaces behind them
CommandWord == (IF HasPrefix THEN 1 ELSE 0) + PrefixWord

Parsed == Len(ret) = 1 /\ ret[1] # NoMessage

\* C24: parser.msg returns no message exactly when the line has no command
\* word (the tag block or the prefix is followed by no space, or nothing is
\* left behind them); any other line gives a message whose command is that
\* word, not empty, and whose tags are not empty exactly when the line begins
\* with '@'
C24_MessageOrNone ==
    Len(ret) = 1 =>
        /\ ret[1] = NoMessage <=> CommandWord > Len(Words(arg))
        /\ Parsed =>
              /\ ret[1].command = Words(arg)[CommandWord]
              /\ ret[1].command # ""
              /\ DOMAIN ret[1].tags # {} <=> HasTagBlock

\* the tags as the line writes them, and the place of the first '=' of one
WrittenTags == split(slice(Words(arg)[1], 1, Len(Words(arg)[1])), ";")

Eq(tag) == indexOf(tag, "=", 0)

KeyOf(tag) == IF Eq(tag) = -1 THEN tag ELSE slice(tag, 0, Eq(tag))

\* C25: in the tags of a parsed line a tag written without '=' has the value
\* true, and a tag written with '=' has the text before the first '=' as its
\* key and the text behind it as its value (of tags written with the same key
\* the last one counts)
C25_TagValues ==
    (Parsed /\ HasTagBlock) =>
        \A i \in DOMAIN WrittenTags :
            (\A j \in DOMAIN WrittenTags : j > i => KeyOf(WrittenTags[j]) # KeyOf(WrittenTags[i]))
                => /\ KeyOf(WrittenTags[i]) \in DOMAIN ret[1].tags
                   /\ ret[1].tags[KeyOf(WrittenTags[i])] =
                         IF Eq(WrittenTags[i]) = -1 THEN True
                         ELSE StringValue(slice(WrittenTags[i], Eq(WrittenTags[i]) + 1,
                                                Len(WrittenTags[i])))

\* ------------------------------------------------------------- utils.channel
IsUpperCase(c) == \E i \in 1..Len(UpperCase) : SubSeq(UpperCase, i, i) = c

\* C26: channel(s) begins with '#' and has no upper-case letter, and channel
\* of it is the same name again
C26_ChannelNormal ==
    /\ Len(ret) >= 1 =>
          /\ startsWith(ret[1], "#")
          /\ \A i \in 1..Len(ret[1]) : ~IsUpperCase(SubSeq(ret[1], i, i))
    /\ Len(ret) = 2 => ret[2] = ret[1]

C26_Witness == arg = "#Ab" /\ ret = <<"#ab", "#ab">>

\* ------------------------------------------------- the delivery of a firing
\* the promises whose one-shot listener is registered on a topic
Listening(ev, topic) == {ev[topic][k].f : k \in {i \in DOMAIN ev[topic] : ev[topic][i].once}}

\* C27: when a topic is fired - a one-shot listener registered on it is
\* called, and so is off the topic afterwards - every one-shot listener that
\* was registered on the topic is called
C27_EveryListenerCalled ==
    [][\A topic \in Topics :
         Listening(events, topic) \ Listening(events', topic) # {}
            => Listening(events, topic) \cap Listening(events', topic) = {}]_vars

\* the promise was rejected by the timer of its deadline
TimedOut(f) == futures[f].status = "rejected" /\ futures[f].err = "No response from Twitch."

\* C28: once the deadline of a command has passed and its promise is
\* rejected, its one-shot listener is registered on no topic, so that a later
\* firing calls the listeners of other commands only
C28_TimedOutListenerGone ==
    /\ [](\A f \in DOMAIN futures : \A topic \in Topics :
            TimedOut(f) => f \notin Listening(events, topic))
    /\ [][\A f \in DOMAIN futures : \A topic \in Topics :
            TimedOut(f) => f \notin Listening(events, topic) \ Listening(events', topic)]_vars

\* ------------------------------------------- a command and the line before it
\* C29: a command is settled by no line handled before its frame was sent:
\* at the end of the step in which it is called its promise is pending, or
\* rejected because the client is not connected
C29_SettledByLaterLine ==
    [][\A f \in (Len(futures) + 1)..Len(futures') :
         futures'[f].status # "pending" => futures'[f].err = "Not connected to server."]_vars

\* ------------------------------------------------- PING, PONG and the timeout
\* a ping() whose PONG has not resolved it
Unanswered(f) == futures[f].kind = "ping" /\ futures[f].status # "resolved"

\* C30: while every PING of the client is answered by a PONG in time, no
\* ping timeout closes the socket.  Stated for the time before the first PING
\* of the loop, when every PING is one of ping(), whose promise a PONG alone
\* resolves: a ping timeout that closes the socket then finds a ping() that
\* no PONG has resolved
C30_NoTimeoutWhenAnswered ==
    [][\A i \in Due("pingTimeout") :
         (/\ Ran(i)
          /\ now < PingInterval
          /\ ws # 0
          /\ socks[ws].readyState = OPEN
          /\ socks'[ws].readyState = CLOSING)
            => \E f \in DOMAIN futures : Unanswered(f)]_vars

\* ------------------------------------------------- joins and ROOMSTATE
\* join f asked for several channels, the server has answered each of them with
\* USERSTATE and then ROOMSTATE, and the deadline of f has not run
AllRoomstatesInTime(f) ==
    /\ Cardinality(NormalNames(futures[f].args)) > 1
    /\ \A c \in NormalNames(futures[f].args) : <<"ROOMSTATE", c>> \in heard
    /\ JoinTimerSet(f)

\* C31: a join of several channels is resolved once a ROOMSTATE was handled for
\* each requested channel before the deadline, in whatever order the lines of
\* the channels arrived
C31_ResolvesInAnyOrder ==
    \A f \in Joins : AllRoomstatesInTime(f) => futures[f].status = "resolved"

\* ------------------------------------------------- join queues and reconnects
\* the JOIN frames for channel c handed to socket n
JoinFrames(n, c) == {k \in DOMAIN sent : sent[k] = [sock |-> n, frame |-> "JOIN " \o c]}

\* C32: with no join() of the user, the join queues hand at most one JOIN per
\* channel to a socket, whose handshake 376 completes once: the queue of an
\* earlier 376 hands nothing to the socket of a later connection
C32_OneJoinPerHandshake ==
    \A n \in DOMAIN socks, c \in Chans : Cardinality(JoinFrames(n, c)) <= 1

\* ------------------------------------------------- channels and userstate
\* C33: every channel of this.channels is a key of this.userstate
C33_ChannelsHaveUserstate ==
    \A i \in DOMAIN channels : channels[i] \in userstate

\* the client handles the USERSTATE of channel c in this step
HandlesUserstate(c) ==
    \E n \in DOMAIN socks :
        /\ socks[n].readyState = OPEN
        /\ socks[n].got376
        /\ \E st \in {hears(receives(Cur, n, Message("tmi.twitch.tv", "USERSTATE", <<c>>, Null)),
                           Message("tmi.twitch.tv", "USERSTATE", <<c>>, Null))} : Becomes(st)

\* C34: in an authenticated session the first USERSTATE handled for a channel
\* since the login appends the channel to this.channels and makes it
\* lastJoined, whatever the user called before; a later one leaves both as
\* they are; each leaves the channel with a userstate
C34_FirstUserstateJoins ==
    [][\A c \in Chans :
         (HandlesUserstate(c) /\ ~isJustinfan(username))
            => /\ c \in userstate'
               /\ IF <<"USERSTATE", c>> \notin heard
                  THEN channels' = Append(channels, c) /\ lastJoined' = c
                  ELSE channels' = channels /\ lastJoined' = lastJoined]_vars

\* ------------------------------------------------- the moderators of a room
\* C35: no name is listed twice among the moderators of a channel
C35_NoModeratorTwice ==
    \A ch \in DOMAIN moderators :
        \A i, j \in DOMAIN moderators[ch] : i # j => moderators[ch][i] # moderators[ch][j]

\* a mods() was answered with a list that names eve twice, and the client, a
\* moderator of #a itself, lists eve there as well
C35_Witness ==
    /\ \E f \in DOMAIN futures :
            /\ futures[f].kind = "mods"
            /\ futures[f].status = "resolved"
            /\ futures[f].value = <<"eve", "eve">>
    /\ "#a" \in DOMAIN moderators
    /\ moderators["#a"] = <<"bob", "eve">>

\* the client handles MODE sign for name on channel c in this step
HandlesMode(c, sign, name) ==
    \E n \in DOMAIN socks :
        /\ socks[n].readyState = OPEN
        /\ socks[n].nick
        /\ \E st \in {receives(Cur, n, ModeLine(c, sign, name))} : Becomes(st)

\* isMod(c, name) as the client would answer it now
IsModNow(c, name) == isMod([moderators |-> moderators], c, name)

\* name is listed among the moderators of channel c
Listed(c, name) == c \in DOMAIN moderators /\ name \in SeqToSet(moderators[c])

\* the rosters of the channels that have one, each as it is listed
Rosters == {<<ch, moderators[ch]>> : ch \in {c \in DOMAIN moderators : moderators[c] # <<>>}}

SplitInputs ==
    {timers[i].chans[2] : i \in {k \in Due("sendRest") : Ran(k)}}
        \cup {futures'[f].args[2] :
                 f \in {g \in (Len(futures) + 1)..Len(futures') : futures'[g].kind = "say"}}

\* C37: every step of _sendMessage leaves to a timer a remainder strictly
\* shorter than the text it was called with, and sends no empty payload, so
\* that the split of a message ends
C37_RemainderShorter ==
    [][/\ \A j \in NewTimers("sendRest"), text \in SplitInputs :
            Len(timers'[j].chans[2]) < Len(text)
       /\ \A k \in (Len(sent) + 1)..Len(sent') : sent'[k].frame # PrivmsgHead]_vars

\* ------------------------------------------------- 'maxreconnect'
\* C38: 'maxreconnect' is emitted only when no reconnect timer is outstanding.
\* Stated for the client's first socket, whose error and close callbacks
\* alone can have set the timer
C38_MaxReconnectIsFinal ==
    (Len(socks) = 1 /\ "maxreconnect" \in SeqToSet(emitted))
        => ReconnectTimers(timers) = {}

\* ------------------------------------------------- PART
\* the client handles the PART of nick for channel c in this step
HandlesPart(c, nick) ==
    \E n \in DOMAIN socks :
        /\ socks[n].readyState = OPEN
        /\ socks[n].got376
        /\ \E st \in {receives(Cur, n, Message(UserPrefix(nick), "PART", <<c>>, Null))} :
              Becomes(st)

\* C39: the client's own PART for a channel leaves the channel in none of
\* this.channels, this.userstate and opts.channels, so that a later 376 does
\* not queue it; the PART of another user changes none of the three
C39_PartForgetsChannel ==
    [][\A c \in Chans :
         /\ HandlesPart(c, username)
                => /\ c \notin SeqToSet(channels')
                   /\ c \notin userstate'
                   /\ c \notin SeqToSet(optsChannels')
         /\ HandlesPart(c, "eve")
                => /\ channels' = channels
                   /\ userstate' = userstate
                   /\ optsChannels' = optsChannels]_vars

\* ------------------------------------------------- this.channels
\* C40: this.channels holds no channel twice
C40_NoChannelTwice ==
    \A i, j \in DOMAIN channels : i # j => channels[i] # channels[j]

====
